---------------------------- MODULE Spec2Model ----------------------------
(***************************************************************************)
(* Model of the semantic memory subsystem (MemoryService): embedding       *)
(* configuration resolution, collection naming, batched embedding through  *)
(* the remote endpoint or the local model, and the vector-store operations *)
(* built on them.                                                          *)
(*                                                                         *)
(* Conventions.  Python None is the string NONE; strings are TLA+ strings, *)
(* so str.strip, str.lower, str.startswith and concatenation are computed  *)
(* character by character.  hashlib.sha256(s).hexdigest()[:8] is the table *)
(* Sha8 of the real digests of the identifiers the model uses.  A float    *)
(* importance is an integer number of tenths; a cosine distance is an      *)
(* integer number of halves (One = 1.0).                                   *)
(***************************************************************************)
EXTENDS Naturals, Integers, Sequences, FiniteSets, TLC

VARIABLES
    app_settings,     \* process defaults (app.config.settings), fixed at start
    embedding_model,  \* MemoryService.embedding_model: the loaded local model or NONE
    chroma,           \* the vector store: collection name -> (record id -> record)
    last,             \* the last MemoryService call: arguments and outcome
    budget,           \* the number of MemoryService calls the behaviour still makes
    log,              \* the calls made so far, oldest first (kept by SpecStats only)
    emb,              \* the last direct _embed_texts call (SpecEmbed)
    nm                \* the last _build_collection_name comparison (SpecName)

vars == <<app_settings, embedding_model, chroma, last, budget, log, emb, nm>>

(***************************************************************************)
(* Bounds of the model.                                                    *)
(***************************************************************************)
MaxTexts == 2      \* longest batch handed to _embed_texts
MaxStored == 2     \* most records the store holds over all collections
MaxCollections == 2  \* most collections the store holds
MaxCalls == 3      \* most MemoryService calls in one behaviour of Spec

NONE == "<None>"

(***************************************************************************)
(* Strings: str.strip(), str.lower(), str.startswith().                    *)
(***************************************************************************)
RECURSIVE LStrip(_)
LStrip(s) ==
    IF Len(s) > 0 /\ SubSeq(s, 1, 1) = " " THEN LStrip(SubSeq(s, 2, Len(s))) ELSE s

RECURSIVE RStrip(_)
RStrip(s) ==
    IF Len(s) > 0 /\ SubSeq(s, Len(s), Len(s)) = " "
    THEN RStrip(SubSeq(s, 1, Len(s) - 1)) ELSE s

Strip(s) == RStrip(LStrip(s))

UpperChars == "ABCDEFGHIJKLMNOPQRSTUVWXYZ"
LowerChars == "abcdefghijklmnopqrstuvwxyz"

LowerChar(c) ==
    IF \E i \in 1..Len(UpperChars) : SubSeq(UpperChars, i, i) = c
    THEN LET i == CHOOSE j \in 1..Len(UpperChars) : SubSeq(UpperChars, j, j) = c
         IN  SubSeq(LowerChars, i, i)
    ELSE c

RECURSIVE Lower(_)
Lower(s) ==
    IF Len(s) = 0 THEN s
    ELSE LowerChar(SubSeq(s, 1, 1)) \o Lower(SubSeq(s, 2, Len(s)))

StartsWith(s, prefix) ==
    Len(s) >= Len(prefix) /\ SubSeq(s, 1, Len(prefix)) = prefix

\* Python truthiness of an optional string, and `a or b`.
Truthy(v) == v # NONE /\ v # ""
Or(a, b) == IF Truthy(a) THEN a ELSE b
\* str(x or "")
StrOrEmpty(v) == IF Truthy(v) THEN v ELSE ""

(***************************************************************************)
(* Identifiers of the model and their truncated SHA-256 digests.           *)
(***************************************************************************)
Users == {"user-1", "user-20491", "user-32057"}
Projects == {"project-1", "project-2"}

PrimaryModel == "sentence-transformers/paraphrase-multilingual-MiniLM-L12-v2"
FallbackModel == "sentence-transformers/all-MiniLM-L6-v2"
DefaultApiModel == "text-embedding-3-small"
DefaultApiBase == "https://api.openai.com/v1"
ModelA == "embed-model-53474"
ModelB == "embed-model-75257"

\* hashlib.sha256(s.encode()).hexdigest()[:8]
Sha8(s) ==
    CASE s = "user-1" -> "c6c289e4"
      [] s = "user-20491" -> "d977d49a"
      [] s = "user-32057" -> "d977d49a"
      [] s = "project-1" -> "a33e35d3"
      [] s = "project-2" -> "2d1eec84"
      [] s = "openai:text-embedding-3-small" -> "132948fc"
      [] s = "openai:embed-model-53474" -> "f9c47c3a"
      [] s = "openai:embed-model-75257" -> "f9c47c3a"
      [] s = "openai:sentence-transformers/paraphrase-multilingual-MiniLM-L12-v2" -> "2cd4c1da"
      [] s = "custom:text-embedding-3-small" -> "7b899b94"
      [] s = "custom:embed-model-53474" -> "e07b82fe"
      [] s = "custom:embed-model-75257" -> "b9f2c2ed"
      [] s = "custom:sentence-transformers/paraphrase-multilingual-MiniLM-L12-v2" -> "69ec57ff"

(***************************************************************************)
(* MemoryService.__init__: the names derived from the process defaults.    *)
(***************************************************************************)
LocalModelName(defaults) ==
    LET d == StrOrEmpty(defaults.default_embedding_model)
    IN  IF StartsWith(d, "sentence-transformers/") THEN d ELSE PrimaryModel

DefaultApiModelName(defaults) ==
    LET d == StrOrEmpty(defaults.default_embedding_model)
    IN  IF d # "" /\ ~StartsWith(d, "sentence-transformers/") THEN d ELSE DefaultApiModel

(***************************************************************************)
(* _resolve_embedding_config.  `stored` is the outcome of the settings     *)
(* read: [status |-> "none"] (no db, or no row), [status |-> "error"] (the *)
(* read raised) or [status |-> "row", row |-> ...].  `override` is a       *)
(* record of the five keys, NONE where the caller's dict has no value.     *)
(***************************************************************************)
ConfigKeys == {"embedding_mode", "embedding_provider", "embedding_model",
               "embedding_api_key", "embedding_api_base_url"}

NoOverride == [k \in ConfigKeys |-> NONE]

DefaultLayer(defaults) ==
    [embedding_mode |-> Or(defaults.default_embedding_mode, "local"),
     embedding_provider |-> Or(defaults.default_embedding_provider, "openai"),
     embedding_model |-> Or(defaults.default_embedding_model, LocalModelName(defaults)),
     embedding_api_key |-> Or(defaults.default_embedding_api_key, ""),
     embedding_api_base_url |-> Or(defaults.default_embedding_api_base_url, DefaultApiBase)]

StoredLayer(config, stored) ==
    IF stored.status = "row"
    THEN [k \in ConfigKeys |-> Or(stored.row[k], config[k])]
    ELSE config

IgnoreOverride(config, override) == config
OverrideLayer(config, override) ==
    [k \in ConfigKeys |-> IF override[k] # NONE THEN override[k] ELSE config[k]]

RawMode(raw) == Or(raw, "local")
NormalizeMode(raw) ==
    LET mode == Lower(Strip(Or(raw, "local")))
    IN  IF mode \in {"local", "api"} THEN mode ELSE "local"

NormalizeProvider(raw) ==
    LET provider == Lower(Strip(Or(raw, "openai")))
    IN  IF provider \in {"openai", "custom"} THEN provider ELSE "openai"

NormalizeConfig(defaults, config) ==
    LET mode == NormalizeMode(config.embedding_mode)
        provider == NormalizeProvider(config.embedding_provider)
    IN  IF mode = "local"
        THEN [config EXCEPT !.embedding_mode = mode,
                            !.embedding_provider = provider,
                            !.embedding_model = LocalModelName(defaults)]
        ELSE [embedding_mode |-> mode,
              embedding_provider |-> provider,
              embedding_model |->
                  Or(Strip(StrOrEmpty(config.embedding_model)), DefaultApiModelName(defaults)),
              embedding_api_key |-> Strip(StrOrEmpty(config.embedding_api_key)),
              embedding_api_base_url |->
                  Or(Strip(StrOrEmpty(config.embedding_api_base_url)), DefaultApiBase)]

ResolveEmbeddingConfig(defaults, stored, override) ==
    NormalizeConfig(defaults,
        OverrideLayer(StoredLayer(DefaultLayer(defaults), stored), override))

(***************************************************************************)
(* _build_collection_name and _list_project_collection_names.              *)
(***************************************************************************)
BaseName(user_id, project_id) ==
    "u_" \o Sha8(user_id) \o "_p_" \o Sha8(project_id)

BuildCollectionName(user_id, project_id, embedding_config) ==
    IF embedding_config.embedding_mode # "api"
    THEN BaseName(user_id, project_id)
    ELSE BaseName(user_id, project_id) \o "_e_"
         \o Sha8(embedding_config.embedding_provider \o ":" \o embedding_config.embedding_model)

\* The names among `names` (client.list_collections()) that start with the prefix.
ListProjectCollectionNames(names, user_id, project_id) ==
    {name \in names : name # "" /\ StartsWith(name, BaseName(user_id, project_id))}


(***************************************************************************)
(* Vectors.  An embedding is identified by the model that produced it and  *)
(* the text it encodes; the remote endpoint answers null as NullEmbedding. *)
(***************************************************************************)
Texts == {"a", "b"}

Vector(model, text) == [model |-> model, text |-> text]
NullEmbedding == [model |-> NONE, text |-> NONE]

\* The non-empty batches of at most MaxTexts texts.
Batches == UNION {[1..n -> Texts] : n \in 1..MaxTexts}

(***************************************************************************)
(* _embed_texts_with_api.  `http` is what the POST produced:               *)
(* [ok |-> FALSE] when the request or raise_for_status raised, otherwise   *)
(* data |-> the "data" list of {index, embedding} items (<<>> when the key *)
(* is missing or the list is empty).                                       *)
(***************************************************************************)
\* sorted(items, key=lambda x: x.get("index", 0)): stable insertion of `item`.
RECURSIVE InsertByIndex(_, _)
InsertByIndex(sorted, item) ==
    IF sorted = <<>> THEN <<item>>
    ELSE IF sorted[Len(sorted)].index <= item.index
         THEN Append(sorted, item)
         ELSE Append(InsertByIndex(SubSeq(sorted, 1, Len(sorted) - 1), item),
                     sorted[Len(sorted)])

RECURSIVE SortedByIndex(_)
NoSortByIndex(items) == items
SortedByIndex(items) ==
    IF items = <<>> THEN <<>>
    ELSE InsertByIndex(SortedByIndex(SubSeq(items, 1, Len(items) - 1)), items[Len(items)])

\* [item.get("embedding") for item in items if item.get("embedding") is not None]
UsableEmbeddings(items) ==
    LET HasEmbedding(item) == item.embedding # NullEmbedding
        kept == SelectSeq(items, HasEmbedding)
    IN  [i \in 1..Len(kept) |-> kept[i].embedding]

Raised(kind) == [status |-> kind, vectors |-> <<>>]
Returned(vectors) == [status |-> "ok", vectors |-> vectors]

PadToInputLength(texts, embeddings) ==
    Returned([i \in 1..Len(texts) |->
        IF i <= Len(embeddings) THEN embeddings[i] ELSE NullEmbedding])
CheckCount(texts, embeddings) ==
    IF Len(embeddings) # Len(texts) THEN Raised("count_mismatch") ELSE Returned(embeddings)

EmbedTextsWithApi(texts, embedding_config, http) ==
    IF embedding_config.embedding_api_key = "" THEN Raised("config_error")
    ELSE IF embedding_config.embedding_api_base_url = "" THEN Raised("config_error")
    ELSE IF ~http.ok THEN Raised("http_error")
    ELSE IF http.data = <<>> THEN Raised("format_error")
    ELSE CheckCount(texts, UsableEmbeddings(SortedByIndex(http.data)))

\* Whether _embed_texts_with_api gets as far as the POST.
ReachesRemote(embedding_config) ==
    /\ embedding_config.embedding_mode = "api"
    /\ embedding_config.embedding_api_key # ""
    /\ embedding_config.embedding_api_base_url # ""

(***************************************************************************)
(* _ensure_local_embedding_model and _embed_texts.  `load_ok` is whether   *)
(* SentenceTransformer(local_model_name) loads when it is attempted.       *)
(***************************************************************************)
AlwaysLoad(current, defaults, load_ok) ==
    IF load_ok THEN LocalModelName(defaults) ELSE NONE
EnsureLocalEmbeddingModel(current, defaults, load_ok) ==
    IF current # NONE THEN current
    ELSE IF load_ok THEN LocalModelName(defaults) ELSE NONE

\* The model attribute after _embed_texts ran under `embedding_config`.
ModelAfterEmbed(current, defaults, embedding_config, load_ok) ==
    IF embedding_config.embedding_mode = "api" THEN current
    ELSE EnsureLocalEmbeddingModel(current, defaults, load_ok)

EmbedTexts(texts, embedding_config, http, current, defaults, load_ok) ==
    IF embedding_config.embedding_mode = "api"
    THEN EmbedTextsWithApi(texts, embedding_config, http)
    ELSE LET model == EnsureLocalEmbeddingModel(current, defaults, load_ok)
         IN  IF model = NONE THEN Raised("load_error")
             ELSE Returned([i \in 1..Len(texts) |-> Vector(model, texts[i])])


(***************************************************************************)
(* Inputs: the process defaults, the stored settings rows and the per-call *)
(* overrides the model draws from.                                         *)
(***************************************************************************)
Settings(mode, provider, model, key, base) ==
    [embedding_mode |-> mode, embedding_provider |-> provider, embedding_model |-> model,
     embedding_api_key |-> key, embedding_api_base_url |-> base]

AppDefaults(mode, provider, model, key, base) ==
    [default_embedding_mode |-> mode, default_embedding_provider |-> provider,
     default_embedding_model |-> model, default_embedding_api_key |-> key,
     default_embedding_api_base_url |-> base]

DefaultsChoices ==
    {AppDefaults(NONE, NONE, NONE, NONE, NONE),
     AppDefaults("api", NONE, ModelA, "sk-process", NONE)}

NoRow == [status |-> "none"]
ReadFailed == [status |-> "error"]
Row(r) == [status |-> "row", row |-> r]

RowLocal == Row(Settings("local", NONE, ModelA, NONE, NONE))
RowApiA == Row(Settings("api", "openai", ModelA, "sk-user", NONE))
RowApiB == Row(Settings(" API ", "Custom", ModelB, "sk-user", "https://embed.example/v1"))
RowApiNoKey == Row(Settings("api", NONE, NONE, NONE, NONE))

StoredChoices == {NoRow, ReadFailed, RowLocal, RowApiA, RowApiB, RowApiNoKey}

OverrideModelB == [NoOverride EXCEPT !.embedding_model = ModelB]
OverrideLocal == [NoOverride EXCEPT !.embedding_mode = "local"]
OverrideApiNoKey == [NoOverride EXCEPT !.embedding_mode = "api", !.embedding_api_key = ""]

OverrideChoices == {NoOverride, OverrideModelB, OverrideLocal, OverrideApiNoKey}

\* MemoryService.__init__: the local model is loaded at start unless the default
\* mode is api; the load ends on the primary or on the fallback model.
InitialModels(defaults) ==
    IF Lower(Strip(Or(defaults.default_embedding_mode, "local"))) = "api"
    THEN {NONE}
    ELSE {PrimaryModel, FallbackModel}

(***************************************************************************)
(* What the remote endpoint may answer to a batch under `model`.           *)
(***************************************************************************)
ResponseItems(model) ==
    [index : 0..MaxTexts,
     embedding : {NullEmbedding} \cup {Vector(model, t) : t \in Texts}]

HttpFailure == [ok |-> FALSE, data |-> <<>>]
NoHttp == [ok |-> FALSE, data |-> <<>>, sent |-> FALSE]

HttpResponses(model) ==
    {HttpFailure} \cup
    {[ok |-> TRUE, data |-> d] :
        d \in UNION {[1..n -> ResponseItems(model)] : n \in 0..(MaxTexts + 1)}}

(***************************************************************************)
(* SpecEmbed: _embed_texts applied to every batch, configuration and       *)
(* remote answer within the bounds.  The initial states hold the call's    *)
(* inputs (op = "pending"); EmbedCall runs the call.                       *)
(***************************************************************************)
NoCall == [op |-> "none"]

\* The stored settings the calls of SpecEmbed are made under.
EmbedStored(defaults) ==
    IF defaults.default_embedding_mode = NONE
    THEN {NoRow, RowApiA, RowApiNoKey}
    ELSE {RowLocal}

EmbedInputs(defaults) ==
    UNION {
        LET embedding_config == ResolveEmbeddingConfig(defaults, st, NoOverride)
        IN  [op : {"pending"},
             texts : Batches,
             config : {embedding_config},
             http : IF ReachesRemote(embedding_config)
                    THEN HttpResponses(embedding_config.embedding_model)
                    ELSE {NoHttp},
             load_ok : BOOLEAN]
        : st \in EmbedStored(defaults)}

EmbedCall ==
    /\ emb.op = "pending"
    /\ emb' = [op |-> "embed_texts",
               texts |-> emb.texts,
               config |-> emb.config,
               http |-> emb.http,
               out |-> EmbedTexts(emb.texts, emb.config, emb.http,
                                  embedding_model, app_settings, emb.load_ok)]
    /\ embedding_model' =
           ModelAfterEmbed(embedding_model, app_settings, emb.config, emb.load_ok)
    /\ UNCHANGED <<app_settings, chroma, last, budget, log, nm>>

InitProcess ==
    /\ app_settings \in DefaultsChoices
    /\ embedding_model \in InitialModels(app_settings)
    /\ chroma = <<>>
    /\ last = NoCall
    /\ log = <<>>

InitEmbed ==
    /\ InitProcess
    /\ budget = 0
    /\ emb \in EmbedInputs(app_settings)
    /\ nm = NoCall

NextEmbed == EmbedCall

SpecEmbed == InitEmbed /\ [][NextEmbed]_vars

\* The response carries one item per input, the indexes a permutation of 0..n-1.
OneItemPerInput(items, n) ==
    /\ Len(items) = n
    /\ \A i \in 1..n : items[i].embedding # NullEmbedding
    /\ \A k \in 0..(n - 1) : \E i \in 1..n : items[i].index = k

ItemTagged(items, k) == CHOOSE i \in 1..Len(items) : items[i].index = k

\* C1: in api mode, when the response carries one (index, embedding) item per
\* input with the indexes a permutation of 0..n-1, _embed_texts returns exactly n
\* vectors and the vector at position i is the embedding tagged with index i.
C1_OrderPreserved ==
    (/\ emb.op = "embed_texts"
     /\ emb.config.embedding_mode = "api"
     /\ emb.http.ok
     /\ OneItemPerInput(emb.http.data, Len(emb.texts)))
    => /\ emb.out.status = "ok"
       /\ Len(emb.out.vectors) = Len(emb.texts)
       /\ \A i \in 1..Len(emb.texts) :
              emb.out.vectors[i] =
                  emb.http.data[ItemTagged(emb.http.data, i - 1)].embedding

\* A batch of two answered in reverse order, with two different embeddings.
C1_Witness ==
    /\ emb.op = "embed_texts"
    /\ emb.config.embedding_mode = "api"
    /\ emb.http.ok
    /\ Len(emb.texts) = 2
    /\ OneItemPerInput(emb.http.data, 2)
    /\ emb.http.data[1].index = 1
    /\ emb.http.data[1].embedding # emb.http.data[2].embedding
    /\ emb.out.status = "ok"


(***************************************************************************)
(* SpecName: _build_collection_name applied to two callers' inputs, each   *)
(* resolved by _resolve_embedding_config.                                  *)
(***************************************************************************)
NameInputs ==
    [user_id : Users, project_id : Projects,
     stored : {NoRow, RowLocal, RowApiA, RowApiB},
     override : {NoOverride, OverrideModelB}]

Named(input, defaults) ==
    LET embedding_config == ResolveEmbeddingConfig(defaults, input.stored, input.override)
    IN  [user_id |-> input.user_id,
         project_id |-> input.project_id,
         supplied_model |-> OverrideLayer(
             StoredLayer(DefaultLayer(defaults), input.stored), input.override).embedding_model,
         config |-> embedding_config,
         name |-> BuildCollectionName(input.user_id, input.project_id, embedding_config)]

BuildNames ==
    /\ nm.op = "pending"
    /\ nm' = [op |-> "names", a |-> Named(nm.a, app_settings), b |-> Named(nm.b, app_settings)]
    /\ UNCHANGED <<app_settings, embedding_model, chroma, last, budget, log, emb>>

InitName ==
    /\ InitProcess
    /\ budget = 0
    /\ emb = NoCall
    /\ nm \in [op : {"pending"}, a : NameInputs, b : NameInputs]

NextName == BuildNames

SpecName == InitName /\ [][NextName]_vars

SameProject(a, b) == a.user_id = b.user_id /\ a.project_id = b.project_id

\* C6: the collection name is a function of (user, project, resolved config); under
\* api mode two configurations that differ in model give different names; under
\* local mode the name is the bare user/project name whatever model was supplied.
C6_NameFunctionOfConfig ==
    nm.op = "names" =>
        /\ (SameProject(nm.a, nm.b) /\ nm.a.config = nm.b.config)
               => nm.a.name = nm.b.name
        /\ (/\ SameProject(nm.a, nm.b)
            /\ nm.a.config.embedding_mode = "api"
            /\ nm.b.config.embedding_mode = "api"
            /\ nm.a.config.embedding_model # nm.b.config.embedding_model)
               => nm.a.name # nm.b.name
        /\ (/\ SameProject(nm.a, nm.b)
            /\ nm.a.config.embedding_mode = "local"
            /\ nm.b.config.embedding_mode = "local")
               => /\ nm.a.name = nm.b.name
                  /\ nm.a.name = BaseName(nm.a.user_id, nm.a.project_id)


(***************************************************************************)
(* The vector store (chromadb.PersistentClient) as MemoryService uses it:  *)
(* chroma maps a collection name to [metadata, records], records mapping a *)
(* record id to [document, embedding, metadata, added_by].  A collection's *)
(* metadata is the one given by the get_collection call that created it    *)
(* (no code reads it back) and added_by is history: the (user, project)    *)
(* whose call wrote the record.                                            *)
(***************************************************************************)
Extend(f, k, v) == [x \in (DOMAIN f) \cup {k} |-> IF x = k THEN v ELSE f[x]]
Restrict(f, S) == [x \in S |-> f[x]]

StoredRecords(store) ==
    UNION {{<<name, id>> : id \in DOMAIN store[name].records} : name \in DOMAIN store}

\* client.get_or_create_collection(name=..., metadata=...)
GetOrCreateCollection(store, name, metadata) ==
    IF name \in DOMAIN store THEN store
    ELSE Extend(store, name, [metadata |-> metadata, records |-> <<>>])

\* get_collection builds the name and the metadata of the collection it asks for.
CollectionMetadata(user_id, project_id, embedding_config) ==
    [user_id |-> user_id,
     project_id |-> project_id,
     embedding_mode |-> embedding_config.embedding_mode,
     embedding_provider |-> embedding_config.embedding_provider,
     embedding_model |-> embedding_config.embedding_model]

GetCollection(store, user_id, project_id, embedding_config) ==
    GetOrCreateCollection(store,
        BuildCollectionName(user_id, project_id, embedding_config),
        CollectionMetadata(user_id, project_id, embedding_config))

\* collection.add(ids, embeddings, documents, metadatas) on the records of one
\* collection: an id repeated in the call is refused (DuplicateIDError, status
\* "raised"); an id the collection already holds is left as it is.
HasDuplicates(ids) == \E i, j \in 1..Len(ids) : i # j /\ ids[i] = ids[j]

CollectionAdd(records, ids, rows) ==
    IF HasDuplicates(ids) THEN [status |-> "raised", records |-> records]
    ELSE [status |-> "ok",
          records |->
              [id \in (DOMAIN records) \cup {ids[i] : i \in 1..Len(ids)} |->
                  IF id \in DOMAIN records THEN records[id]
                  ELSE rows[CHOOSE i \in 1..Len(ids) : ids[i] = id]]]

(***************************************************************************)
(* The memories callers hand to add_memory / batch_add_memories.  A        *)
(* metadata key the caller leaves out is NONE (NoInt for a number, NoList   *)
(* for a list).                                                            *)
(***************************************************************************)
NoInt == 0 - 1
NoList == <<NONE>>

Memory(id, content, type, chapter_id, chapter_number, importance_score, tags, title, is_foreshadow, related_characters) ==
    [id |-> id, content |-> content, type |-> type,
     metadata |-> [chapter_id |-> chapter_id, chapter_number |-> chapter_number,
                   importance_score |-> importance_score, tags |-> tags,
                   title |-> title, is_foreshadow |-> is_foreshadow,
                   related_characters |-> related_characters]]

Catalog ==
    [M1 |-> Memory("m1", "a", "plot_point", "ch-1", 1, 8, <<"duel">>, "Duel", 0, <<"Ann">>),
     M2 |-> Memory("m2", "b", "hook", "ch-1", 1, 3, <<>>, "Letter", 1, <<>>),
     M3 |-> Memory("m3", "b", "plot_point", "ch-2", 2, NoInt, NoList, NONE, 2, NoList),
     M1b |-> Memory("m1", "b", "hook", "ch-2", 2, 5, <<>>, "Duel", 1, <<>>),
     M4 |-> Memory("m4", "c", "hook", NONE, NoInt, 9, <<>>, "Omen", 1, <<>>)]

MemoryKeys == DOMAIN Catalog

\* metadata.get(key, default), by the type of the value
GetStr(metadata, key, default) == IF metadata[key] = NONE THEN default ELSE metadata[key]
GetInt(metadata, key, default) == IF metadata[key] = NoInt THEN default ELSE metadata[key]
GetList(metadata, key, default) == IF metadata[key] = NoList THEN default ELSE metadata[key]

\* json.dumps(list_of_strings, ensure_ascii=False)
RECURSIVE JsonItems(_)
JsonItems(list) ==
    IF Len(list) = 0 THEN ""
    ELSE IF Len(list) = 1 THEN "\"" \o list[1] \o "\""
    ELSE "\"" \o list[1] \o "\", " \o JsonItems(Tail(list))

JsonDumps(list) == "[" \o JsonItems(list) \o "]"

\* str(value)[:200]
Truncated(text) == IF Len(text) > 200 THEN SubSeq(text, 1, 200) ELSE text

\* metadata.get("importance_score", 0.5), in tenths
DefaultImportance == 5

\* The metadata batch_add_memories stores for one memory (importance in tenths).
BatchChromaMetadata(mem, resolved_config) ==
    [memory_type |-> mem.type,
     chapter_id |-> GetStr(mem.metadata, "chapter_id", ""),
     chapter_number |-> GetInt(mem.metadata, "chapter_number", 0),
     importance |-> GetInt(mem.metadata, "importance_score", DefaultImportance),
     tags |-> JsonDumps(GetList(mem.metadata, "tags", <<>>)),
     title |-> Truncated(GetStr(mem.metadata, "title", "")),
     is_foreshadow |-> GetInt(mem.metadata, "is_foreshadow", 0),
     embedding_model |-> Truncated(resolved_config.embedding_model)]

\* The metadata add_memory stores: the same keys, and related_characters when the
\* caller gave a non-empty list.
AddChromaMetadata(mem, resolved_config) ==
    LET base == BatchChromaMetadata(mem, resolved_config)
        related == GetList(mem.metadata, "related_characters", <<>>)
    IN  IF related # <<>>
        THEN Extend(base, "related_characters", JsonDumps(related))
        ELSE base

StoredRow(document, embedding, metadata, user_id, project_id) ==
    [document |-> document, embedding |-> embedding, metadata |-> metadata,
     added_by |-> <<user_id, project_id>>]


(***************************************************************************)
(* add_memory / batch_add_memories, from the resolved configuration on, as *)
(* one function of the store, the loaded model and what the collaborators  *)
(* answer during the call: `http` the remote endpoint, `load_ok` the       *)
(* on-demand model load, `store_fail` the store call that raises ("none",  *)
(* "get_or_create", "add").                                                *)
(***************************************************************************)
Contents(mems) == [i \in 1..Len(mems) |-> mems[i].content]
Ids(mems) == [i \in 1..Len(mems) |-> mems[i].id]

\* What the call leaves behind: the store, the model attribute, whether the body
\* ran to its return statement, and where the embedding call ended.
Outcome(store, model, ok, embed) ==
    [store |-> store, model |-> model, ok |-> ok, embed |-> embed]

IngestOutcome(store, model, defaults, user_id, project_id, mems, single, resolved_config, http, load_ok, store_fail) ==
    LET name == BuildCollectionName(user_id, project_id, resolved_config)
        created == GetCollection(store, user_id, project_id, resolved_config)
        out == EmbedTexts(Contents(mems), resolved_config, http, model, defaults, load_ok)
        model_after == ModelAfterEmbed(model, defaults, resolved_config, load_ok)
        rows == [i \in 1..Len(mems) |->
                    StoredRow(mems[i].content, out.vectors[i],
                              IF single THEN AddChromaMetadata(mems[i], resolved_config)
                              ELSE BatchChromaMetadata(mems[i], resolved_config),
                              user_id, project_id)]
        added == CollectionAdd(created[name].records, Ids(mems), rows)
    IN  IF store_fail = "get_or_create" THEN Outcome(store, model, FALSE, "not_called")
        ELSE IF out.status # "ok" THEN Outcome(created, model_after, FALSE, out.status)
        ELSE IF store_fail = "add" \/ added.status = "raised"
             THEN Outcome(created, model_after, FALSE, "ok")
        ELSE Outcome([created EXCEPT ![name].records = added.records],
                     model_after, TRUE, "ok")

\* add_memory returns True / False.
AddMemoryResult(outcome) == outcome.ok

\* batch_add_memories returns len(memories) / 0.
BatchAddResult(mems, outcome) ==
    IF outcome.ok THEN Len(mems) ELSE 0

(***************************************************************************)
(* delete_project_memories / delete_chapter_memories.  `fail` is the store *)
(* call that raises: [kind |-> "none"], [kind |-> "list"] (list_collections*)
(* raised inside _list_project_collection_names, which answers []) or      *)
(* [kind |-> "loop", done |-> D]: the loop raised after it had finished    *)
(* the collections D.                                                      *)
(***************************************************************************)
NoFailure == [kind |-> "none"]
ListFails == [kind |-> "list"]
LoopFails(done) == [kind |-> "loop", done |-> done]

ListedNames(store, user_id, project_id, fail) ==
    IF fail.kind = "list" THEN {}
    ELSE ListProjectCollectionNames(DOMAIN store, user_id, project_id)

\* The calls that can go wrong while the names `names` are processed.
LoopFailures(names) == {LoopFails(done) : done \in (SUBSET names) \ {names}}

DeleteProjectOutcome(store, user_id, project_id, fail) ==
    LET names == ListedNames(store, user_id, project_id, fail)
    IN  IF names = {} THEN [store |-> store, ok |-> TRUE]
        ELSE IF fail.kind = "loop"
             THEN [store |-> Restrict(store, (DOMAIN store) \ fail.done), ok |-> FALSE]
        ELSE [store |-> Restrict(store, (DOMAIN store) \ names), ok |-> TRUE]

\* collection.get(where={"chapter_id": chapter_id}) then collection.delete(ids=...)
WithoutChapter(collection, chapter_id) ==
    [collection EXCEPT !.records =
        Restrict(collection.records,
                 {id \in DOMAIN collection.records :
                     collection.records[id].metadata.chapter_id # chapter_id})]

DeleteChapterOutcome(store, user_id, project_id, chapter_id, fail) ==
    LET names == ListedNames(store, user_id, project_id, fail)
        purged == IF fail.kind = "loop" THEN fail.done ELSE names
    IN  [store |-> [name \in DOMAIN store |->
                       IF name \in purged THEN WithoutChapter(store[name], chapter_id)
                       ELSE store[name]],
         ok |-> names = {} \/ fail.kind # "loop"]

(***************************************************************************)
(* get_memory_stats: a full scan of the active collection.                 *)
(***************************************************************************)
\* The number of records whose metadata has `value` under `key`.
CountWhere(records, key, value) ==
    Cardinality({id \in DOMAIN records : records[id].metadata[key] = value})

\* str(chapter_num) of every record.
ChapterKeys(records) ==
    {ToString(records[id].metadata.chapter_number) : id \in DOMAIN records}

StatsOf(records) ==
    IF DOMAIN records = {}
    THEN [total_count |-> 0, by_type |-> <<>>, by_chapter |-> <<>>, foreshadow_count |-> 0]
    ELSE [total_count |-> Cardinality(DOMAIN records),
          by_type |->
              [t \in {records[id].metadata.memory_type : id \in DOMAIN records} |->
                  CountWhere(records, "memory_type", t)],
          by_chapter |->
              [c \in ChapterKeys(records) |->
                  Cardinality({id \in DOMAIN records :
                      ToString(records[id].metadata.chapter_number) = c})],
          foreshadow_count |-> CountWhere(records, "is_foreshadow", 1),
          foreshadow_resolved |-> CountWhere(records, "is_foreshadow", 2)]

StatsError == [error |-> "raised"]

\* store_fail: "none", "get_or_create" or "get".
StatsOutcome(store, user_id, project_id, resolved_config, store_fail) ==
    LET name == BuildCollectionName(user_id, project_id, resolved_config)
        created == GetCollection(store, user_id, project_id, resolved_config)
    IN  IF store_fail = "get_or_create" THEN [store |-> store, stats |-> StatsError]
        ELSE IF store_fail = "get" THEN [store |-> created, stats |-> StatsError]
        ELSE [store |-> created, stats |-> StatsOf(created[name].records)]


(***************************************************************************)
(* Spec: the service's calls interleaved on one store.  Each call draws    *)
(* its caller, its settings row, its override and what the collaborators   *)
(* answer.                                                                 *)
(***************************************************************************)
\* The (user, project) pairs that call: two users whose digests agree on
\* project-1, and a second project of the first of them.
Tenants ==
    {<<"user-20491", "project-1">>, <<"user-32057", "project-1">>,
     <<"user-20491", "project-2">>}

Chapters == {"ch-1", "ch-2"}

Call(stored, override) == [stored |-> stored, override |-> override]

CallConfigs ==
    {Call(NoRow, NoOverride), Call(RowApiA, NoOverride)}

\* _resolve_embedding_config for every defaults and call of the model.
\* (f @@ <<>> is f, held as a table of its values.)
ResolvedConfigs ==
    [defaults \in DefaultsChoices |->
        [call \in [stored : StoredChoices, override : OverrideChoices] |->
            ResolveEmbeddingConfig(defaults, call.stored, call.override)] @@ <<>>] @@ <<>>

\* The configuration a call made with `call` resolves to in this process.
Resolved(call) == ResolvedConfigs[app_settings][call]

BatchChoices ==
    {<<>>, <<"M1">>, <<"M1b">>, <<"M2", "M3">>, <<"M1", "M1b">>}

\* The memories handed to add_memory.
AddChoices == {"M1", "M3"}

Memories(batch) == [i \in 1..Len(batch) |-> Catalog[batch[i]]]

\* The remote endpoint's answers to `texts`: every item right and in order, or
\* with one defect.
RemoteShapes ==
    {"in_order", "drop_last", "null_first", "one_more", "empty", "http_error"}

Faithful(texts, model) ==
    [i \in 1..Len(texts) |-> [index |-> i - 1, embedding |-> Vector(model, texts[i])]]

RemoteAnswer(shape, texts, model) ==
    LET items == Faithful(texts, model)
        n == Len(items)
    IN  CASE shape = "in_order" -> [ok |-> TRUE, data |-> items]
          [] shape = "drop_last" -> [ok |-> TRUE, data |-> SubSeq(items, 1, n - 1)]
          [] shape = "null_first" ->
                [ok |-> TRUE,
                 data |-> [i \in 1..n |->
                     IF i = 1 THEN [items[i] EXCEPT !.embedding = NullEmbedding]
                     ELSE items[i]]]
          [] shape = "one_more" ->
                [ok |-> TRUE,
                 data |-> Append(items, [index |-> n, embedding |-> Vector(model, texts[n])])]
          [] shape = "empty" -> [ok |-> TRUE, data |-> <<>>]
          [] shape = "http_error" -> HttpFailure

Env(remote, load_ok, store_fail) ==
    [remote |-> remote, load_ok |-> load_ok, store_fail |-> store_fail]

\* What can happen around one ingest call made under `resolved_config`.
IngestEnvs(resolved_config) ==
    {Env("in_order", TRUE, f) : f \in {"none", "get_or_create", "add"}}
    \cup (IF ReachesRemote(resolved_config)
          THEN {Env(shape, TRUE, "none") : shape \in RemoteShapes}
          ELSE {})
    \cup (IF resolved_config.embedding_mode = "local" /\ embedding_model = NONE
          THEN {Env("in_order", FALSE, "none")}
          ELSE {})

\* One more call is made, while the behaviour has calls left.
Served == budget > 0 /\ budget' = budget - 1

WithinBounds(store) ==
    /\ Cardinality(DOMAIN store) <= MaxCollections
    /\ Cardinality(StoredRecords(store)) <= MaxStored

\* How many usable embeddings the endpoint's answer carried (NoInt when the call
\* got no answer).
UsableCount(http) ==
    IF http.ok THEN Len(UsableEmbeddings(http.data)) ELSE NoInt

\* The record of a call that failed: what it returned and, of an ingest call,
\* the number of texts, the usable embeddings answered and where embedding ended.
Failed(op, result, n, usable, embed) ==
    [op |-> op, result |-> result, n |-> n, usable |-> usable, embed |-> embed]

\* A successful call is recorded with its arguments as well.
Ingest(op, tenant, batch, resolved_config, env) ==
    LET mems == Memories(batch)
        http == IF ReachesRemote(resolved_config) /\ env.store_fail # "get_or_create"
                THEN RemoteAnswer(env.remote, Contents(mems), resolved_config.embedding_model)
                ELSE NoHttp
        outcome == IngestOutcome(chroma, embedding_model, app_settings,
                       tenant[1], tenant[2], mems, op = "add_memory", resolved_config,
                       http, env.load_ok, env.store_fail)
        result == IF op = "add_memory" THEN AddMemoryResult(outcome)
                  ELSE BatchAddResult(mems, outcome)
    IN  /\ Served
        /\ WithinBounds(outcome.store)
        /\ chroma' = outcome.store
        /\ embedding_model' = outcome.model
        /\ last' = IF outcome.ok
                   THEN [op |-> op,
                         user_id |-> tenant[1],
                         project_id |-> tenant[2],
                         name |-> BuildCollectionName(tenant[1], tenant[2], resolved_config),
                         batch |-> batch,
                         n |-> Len(batch),
                         usable |-> UsableCount(http),
                         embed |-> outcome.embed,
                         result |-> result]
                   ELSE Failed(op, result, Len(batch), UsableCount(http), outcome.embed)
        /\ UNCHANGED <<app_settings, emb, nm>>

AddMemory ==
    \E tenant \in Tenants, key \in AddChoices, call \in CallConfigs :
        \E env \in IngestEnvs(Resolved(call)) :
            Ingest("add_memory", tenant, <<key>>, Resolved(call), env)

BatchAddMemories ==
    \/ /\ Served
       /\ last' = Failed("batch_add_memories", 0, 0, NoInt, "not_called")
       /\ UNCHANGED <<app_settings, embedding_model, chroma, emb, nm>>
    \/ \E tenant \in Tenants, batch \in BatchChoices \ {<<>>}, call \in CallConfigs :
        \E env \in IngestEnvs(Resolved(call)) :
            Ingest("batch_add_memories", tenant, batch, Resolved(call), env)

DeleteProjectMemories ==
    \E tenant \in Tenants :
        \E fail \in {NoFailure, ListFails}
                    \cup LoopFailures(ListProjectCollectionNames(DOMAIN chroma, tenant[1], tenant[2])) :
            LET outcome == DeleteProjectOutcome(chroma, tenant[1], tenant[2], fail)
            IN  /\ Served
                /\ chroma' = outcome.store
                /\ last' = IF outcome.ok
                           THEN [op |-> "delete_project_memories", user_id |-> tenant[1],
                                 project_id |-> tenant[2], store_fail |-> fail.kind,
                                 result |-> TRUE]
                           ELSE Failed("delete_project_memories", FALSE, 0, NoInt, "not_called")
                /\ UNCHANGED <<app_settings, embedding_model, emb, nm>>

DeleteChapterMemories ==
    \E tenant \in Tenants, chapter_id \in Chapters :
        \E fail \in {NoFailure, ListFails}
                    \cup LoopFailures(ListProjectCollectionNames(DOMAIN chroma, tenant[1], tenant[2])) :
            LET outcome == DeleteChapterOutcome(chroma, tenant[1], tenant[2], chapter_id, fail)
            IN  /\ Served
                /\ chroma' = outcome.store
                /\ last' = IF outcome.ok
                           THEN [op |-> "delete_chapter_memories", user_id |-> tenant[1],
                                 project_id |-> tenant[2], chapter_id |-> chapter_id,
                                 store_fail |-> fail.kind, result |-> TRUE]
                           ELSE Failed("delete_chapter_memories", FALSE, 0, NoInt, "not_called")
                /\ UNCHANGED <<app_settings, embedding_model, emb, nm>>

GetMemoryStats ==
    \E tenant \in Tenants, stored \in {NoRow, RowApiA},
       store_fail \in {"none", "get_or_create", "get"} :
        LET resolved_config == Resolved(Call(stored, NoOverride))
            outcome == StatsOutcome(chroma, tenant[1], tenant[2], resolved_config, store_fail)
        IN  /\ Served
            /\ WithinBounds(outcome.store)
            /\ chroma' = outcome.store
            /\ last' = IF store_fail = "none"
                       THEN [op |-> "get_memory_stats", user_id |-> tenant[1],
                             project_id |-> tenant[2],
                             name |-> BuildCollectionName(tenant[1], tenant[2], resolved_config),
                             result |-> outcome.stats]
                       ELSE Failed("get_memory_stats", outcome.stats, 0, NoInt, "not_called")
            /\ UNCHANGED <<app_settings, embedding_model, emb, nm>>

Init ==
    /\ InitProcess
    /\ budget = MaxCalls
    /\ app_settings = AppDefaults(NONE, NONE, NONE, NONE, NONE)
    /\ emb = NoCall
    /\ nm = NoCall

Next ==
    \/ AddMemory /\ UNCHANGED log
    \/ BatchAddMemories /\ UNCHANGED log
    \/ DeleteProjectMemories /\ UNCHANGED log
    \/ DeleteChapterMemories /\ UNCHANGED log
    \/ GetMemoryStats /\ UNCHANGED log

Spec == Init /\ [][Next]_vars

(***************************************************************************)
(* SpecStats: the behaviours made of successful batch_add_memories,        *)
(* delete_chapter_memories and get_memory_stats calls, each appended to    *)
(* log.                                                                    *)
(***************************************************************************)
\* The call returned its success value.
BatchAdded(call) == call.op = "batch_add_memories" /\ call.result # 0
ChapterDeleted(call) == call.op = "delete_chapter_memories" /\ call.result = TRUE
StatsReported(call) == call.op = "get_memory_stats" /\ "total_count" \in DOMAIN call.result

NextStats ==
    \/ BatchAddMemories /\ BatchAdded(last') /\ log' = Append(log, last')
    \/ DeleteChapterMemories /\ ChapterDeleted(last') /\ log' = Append(log, last')
    \/ GetMemoryStats /\ StatsReported(last') /\ log' = Append(log, last')

SpecStats == Init /\ [][NextStats]_vars


(***************************************************************************)
(* search_memories.  The where-filter is built from a list of conditions,  *)
(* each [field, op, values, bound]: values is the list of an "$in", bound   *)
(* the number of a "$gte" / "$lte".                                        *)
(***************************************************************************)
NoRange == <<>>

Condition(field, op, values, bound) ==
    [field |-> field, op |-> op, values |-> values, bound |-> bound]

\* conditions = [] and the three `if ...: conditions.append(...)`
Conditions(memory_types, min_importance, chapter_range) ==
    (IF memory_types # NoList /\ memory_types # <<>>
     THEN <<Condition("memory_type", "$in", memory_types, 0)>>
     ELSE <<>>)
    \o (IF min_importance > 0
        THEN <<Condition("importance", "$gte", <<>>, min_importance)>>
        ELSE <<>>)
    \o (IF chapter_range # NoRange
        THEN <<Condition("chapter_number", "$gte", <<>>, chapter_range[1]),
               Condition("chapter_number", "$lte", <<>>, chapter_range[2])>>
        ELSE <<>>)

NoFilter == [kind |-> "none"]
Bare(condition) == [kind |-> "bare", condition |-> condition]
Conjunction(conditions) == [kind |-> "and", conditions |-> conditions]

AlwaysConjunction(conditions) ==
    IF Len(conditions) = 0 THEN NoFilter ELSE Conjunction(conditions)
\* where_filter: None, conditions[0] or {"$and": conditions}
WhereFilter(conditions) ==
    IF Len(conditions) = 0 THEN NoFilter
    ELSE IF Len(conditions) = 1 THEN Bare(conditions[1])
    ELSE Conjunction(conditions)

\* The store's reading of a where-filter on one record's metadata.
Holds(metadata, condition) ==
    CASE condition.op = "$in" ->
            \E i \in 1..Len(condition.values) : metadata[condition.field] = condition.values[i]
      [] condition.op = "$gte" -> metadata[condition.field] >= condition.bound
      [] condition.op = "$lte" -> metadata[condition.field] =< condition.bound
      [] condition.op = "$lt" -> metadata[condition.field] < condition.bound
      [] condition.op = "$eq" -> metadata[condition.field] = condition.bound

Matches(metadata, where) ==
    CASE where.kind = "none" -> TRUE
      [] where.kind = "bare" -> Holds(metadata, where.condition)
      [] where.kind = "and" ->
            \A i \in 1..Len(where.conditions) : Holds(metadata, where.conditions[i])

\* The distance of two vectors, in halves: by their texts, and one half more when
\* two models produced them.
One == 2

TextDistance(a, b) ==
    IF a = b THEN 0
    ELSE IF {a, b} = {"a", "b"} THEN 1
    ELSE IF {a, b} = {"a", "c"} THEN 2
    ELSE 3

Distance(u, v) ==
    TextDistance(u.text, v.text) + (IF u.model = v.model THEN 0 ELSE 1)

\* collection.query(query_embeddings=[q], n_results=n, where=...): the n nearest
\* matching records, nearest first, records at equal distance in any order.
QueryResults(records, query_embedding, n_results, where) ==
    LET matching == {id \in DOMAIN records : Matches(records[id].metadata, where)}
        Far(id) == Distance(query_embedding, records[id].embedding)
        k == IF n_results < Cardinality(matching) THEN n_results ELSE Cardinality(matching)
    IN  {hits \in [1..k -> matching] :
            /\ \A i, j \in 1..k : i < j => hits[i] # hits[j] /\ Far(hits[i]) =< Far(hits[j])
            /\ \A id \in matching :
                   (\A i \in 1..k : hits[i] # id) => \A i \in 1..k : Far(hits[i]) =< Far(id)}

DistanceAsSimilarity(distance) == distance
\* "similarity": 1 - results['distances'][0][i]
Similarity(distance) == One - distance

\* memories.append({...}) for every hit
FormatHits(records, query_embedding, hits) ==
    [i \in 1..Len(hits) |->
        LET distance == Distance(query_embedding, records[hits[i]].embedding)
        IN  [id |-> hits[i],
             content |-> records[hits[i]].document,
             metadata |-> records[hits[i]].metadata,
             similarity |-> Similarity(distance),
             distance |-> distance]]

\* search_memories from the resolved configuration on: the outcomes the call can
\* have.  store_fail is "none", "get_or_create" or "query"; a limit below 1 makes
\* collection.query raise.
SearchOutcomes(store, model, defaults, user_id, project_id, query, memory_types, limit, min_importance, chapter_range, resolved_config, http, load_ok, store_fail) ==
    LET name == BuildCollectionName(user_id, project_id, resolved_config)
        created == GetCollection(store, user_id, project_id, resolved_config)
        out == EmbedTexts(<<query>>, resolved_config, http, model, defaults, load_ok)
        model_after == ModelAfterEmbed(model, defaults, resolved_config, load_ok)
        where == WhereFilter(Conditions(memory_types, min_importance, chapter_range))
        Ended(st, md, embed, queried, result) ==
            [store |-> st, model |-> md, embed |-> embed, queried |-> queried,
             query_embedding |-> IF queried THEN out.vectors[1] ELSE NullEmbedding,
             where |-> IF queried THEN where ELSE NoFilter, result |-> result]
    IN  IF store_fail = "get_or_create"
        THEN {Ended(store, model, "not_called", FALSE, <<>>)}
        ELSE IF out.status # "ok"
        THEN {Ended(created, model_after, out.status, FALSE, <<>>)}
        ELSE IF store_fail = "query" \/ limit < 1
        THEN {Ended(created, model_after, "ok", TRUE, <<>>)}
        ELSE {Ended(created, model_after, "ok", TRUE,
                    FormatHits(created[name].records, out.vectors[1], hits)) :
                 hits \in QueryResults(created[name].records, out.vectors[1], limit, where)}

(***************************************************************************)
(* SpecSearch: search_memories applied to a planted store.  The initial    *)
(* states hold a store written by batch_add_memories calls and the inputs  *)
(* of one search (op = "pending"); SearchMemories runs it.                 *)
(***************************************************************************)
\* batch_add_memories(batch) by `tenant` under `call`, everything going well.
Plant(store, model, defaults, tenant, batch, call) ==
    IF batch = <<>> THEN store
    ELSE LET resolved_config == ResolvedConfigs[defaults][call]
         IN  IngestOutcome(store, model, defaults, tenant[1], tenant[2], Memories(batch),
                 FALSE, resolved_config,
                 [ok |-> TRUE,
                  data |-> Faithful(Contents(Memories(batch)), resolved_config.embedding_model)],
                 TRUE, "none").store

\* A first batch of the first tenant, then possibly one memory of another tenant,
\* both under the same settings.
PlantedStores(model, defaults) ==
    {Plant(Plant(<<>>, model, defaults, <<"user-20491", "project-1">>, first, call),
           model, defaults, tenant, second, call) :
        first \in {<<"M1">>, <<"M1", "M2">>, <<"M2", "M3">>},
        tenant \in {<<"user-32057", "project-1">>, <<"user-20491", "project-2">>},
        second \in {<<>>, <<"M3">>},
        call \in CallConfigs}

Queries == {"a", "c"}
TypeFilters == {NoList, <<>>, <<"hook">>, <<"plot_point", "hook">>}
Limits == {0, 1, 3}
ImportanceFloors == {0, 5}
ChapterRanges == {NoRange, <<1, 1>>, <<1, 2>>}

SearchInputs ==
    {input \in [op : {"pending"},
                tenant : Tenants,
                call : CallConfigs,
                query : Queries,
                memory_types : TypeFilters,
                limit : Limits,
                min_importance : ImportanceFloors,
                chapter_range : ChapterRanges,
                remote : {"in_order", "http_error"},
                store_fail : {"none", "get_or_create", "query"}] :
        input.remote = "in_order" \/ input.call.stored # NoRow}

SearchMemories ==
    /\ last.op = "pending"
    /\ Served
    /\ LET resolved_config == Resolved(last.call)
           http == IF ReachesRemote(resolved_config) /\ last.store_fail # "get_or_create"
                   THEN RemoteAnswer(last.remote, <<last.query>>,
                                     resolved_config.embedding_model)
                   ELSE NoHttp
       IN  \E outcome \in SearchOutcomes(chroma, embedding_model, app_settings,
                              last.tenant[1], last.tenant[2], last.query,
                              last.memory_types, last.limit, last.min_importance,
                              last.chapter_range, resolved_config, http, TRUE,
                              last.store_fail) :
               /\ chroma' = outcome.store
               /\ embedding_model' = outcome.model
               /\ last' = [op |-> "search_memories",
                           user_id |-> last.tenant[1],
                           project_id |-> last.tenant[2],
                           name |-> BuildCollectionName(last.tenant[1], last.tenant[2],
                                                        resolved_config),
                           query |-> last.query,
                           memory_types |-> last.memory_types,
                           limit |-> last.limit,
                           min_importance |-> last.min_importance,
                           chapter_range |-> last.chapter_range,
                           embed |-> outcome.embed,
                           queried |-> outcome.queried,
                           query_embedding |-> outcome.query_embedding,
                           where |-> outcome.where,
                           result |-> outcome.result]
    /\ UNCHANGED <<app_settings, log, emb, nm>>

InitSearch ==
    /\ app_settings = AppDefaults(NONE, NONE, NONE, NONE, NONE)
    /\ embedding_model \in InitialModels(app_settings)
    /\ chroma \in PlantedStores(embedding_model, app_settings)
    /\ last \in SearchInputs
    /\ budget = 1
    /\ log = <<>>
    /\ emb = NoCall
    /\ nm = NoCall

NextSearch == SearchMemories

SpecSearch == InitSearch /\ [][NextSearch]_vars


(***************************************************************************)
(* SpecLoad: the local model's loading.  The process starts with           *)
(* MemoryService.__init__, one step per SentenceTransformer(...) attempt,   *)
(* and then serves _embed_texts calls.  last = [op |-> "load", phase |->    *)
(* ...] is the position in __init__; log holds every load attempt made, at *)
(* start or on demand, oldest first; emb.has_valid_model is whether the    *)
(* primary model's snapshots directory exists and is not empty.            *)
(***************************************************************************)
MaxEmbedCalls == 3

ConfiguredLocalModel == "sentence-transformers/distiluse-base-multilingual-cased-v2"

LoadDefaults ==
    DefaultsChoices
    \cup {AppDefaults("api", NONE, ConfiguredLocalModel, "sk-process", NONE),
          AppDefaults(NONE, NONE, ConfiguredLocalModel, NONE, NONE)}

\* default_mode == "api" in __init__
StartsInApiMode(defaults) ==
    Lower(Strip(Or(defaults.default_embedding_mode, "local"))) = "api"

Loading(phase) == [op |-> "load", phase |-> phase]

Attempt(kind, model, ok, at) == [attempt |-> kind, model |-> model, ok |-> ok, at |-> at]

\* __init__ up to its first load attempt.
StartLoad ==
    /\ last = Loading("untried")
    /\ last' = IF StartsInApiMode(app_settings) THEN Loading("skipped")
               ELSE IF emb.has_valid_model THEN Loading("offline_primary")
               ELSE Loading("online_primary")
    /\ UNCHANGED <<app_settings, embedding_model, chroma, budget, log, emb, nm>>

\* One SentenceTransformer(...) attempt of __init__: on success the chain ends, on
\* failure __init__ goes on to `next_phase`.
LoadAttempt(phase, model, next_phase) ==
    /\ last = Loading(phase)
    /\ \E ok \in BOOLEAN :
        /\ log' = Append(log, Attempt(phase, model, ok, "start"))
        /\ embedding_model' = IF ok THEN model ELSE embedding_model
        /\ last' = IF ok THEN Loading("loaded") ELSE Loading(next_phase)
    /\ UNCHANGED <<app_settings, chroma, budget, emb, nm>>

\* local_files_only=True; a failure is re-raised into the outer except clause.
AttemptOfflinePrimary == LoadAttempt("offline_primary", PrimaryModel, "fallback")
\* local_files_only=False
AttemptOnlinePrimary == LoadAttempt("online_primary", PrimaryModel, "fallback")
\* all-MiniLM-L6-v2; a failure raises RuntimeError out of __init__.
AttemptFallback == LoadAttempt("fallback", FallbackModel, "failed")

\* The load attempts _embed_texts makes under `embedding_config`.
OnDemandAttempts(current, defaults, embedding_config, load_ok) ==
    IF embedding_config.embedding_mode # "api" /\ current = NONE
    THEN <<Attempt("on_demand", LocalModelName(defaults), load_ok, "embed")>>
    ELSE <<>>

ProcessServes ==
    \/ last.op = "embed_texts"
    \/ last.op = "load" /\ last.phase \in {"loaded", "skipped"}

\* One _embed_texts call of the running process.
ServeEmbed ==
    /\ ProcessServes
    /\ Served
    /\ \E stored \in {NoRow, RowLocal, RowApiA}, texts \in {<<"a">>, <<"a", "b">>},
          remote \in {"in_order", "http_error"}, load_ok \in BOOLEAN :
        LET embedding_config == ResolveEmbeddingConfig(app_settings, stored, NoOverride)
            http == IF ReachesRemote(embedding_config)
                    THEN RemoteAnswer(remote, texts, embedding_config.embedding_model)
                    ELSE NoHttp
            out == EmbedTexts(texts, embedding_config, http, embedding_model,
                              app_settings, load_ok)
        IN  /\ ReachesRemote(embedding_config) \/ remote = "in_order"
            /\ embedding_model' =
                   ModelAfterEmbed(embedding_model, app_settings, embedding_config, load_ok)
            /\ log' = log \o OnDemandAttempts(embedding_model, app_settings,
                                              embedding_config, load_ok)
            /\ last' = [op |-> "embed_texts",
                        mode |-> embedding_config.embedding_mode,
                        texts |-> texts,
                        model_before |-> embedding_model,
                        out |-> out]
    /\ UNCHANGED <<app_settings, chroma, emb, nm>>

InitLoad ==
    /\ app_settings \in LoadDefaults
    /\ embedding_model = NONE
    /\ chroma = <<>>
    /\ last = Loading("untried")
    /\ budget = MaxEmbedCalls
    /\ log = <<>>
    /\ emb \in [op : {"env"}, has_valid_model : BOOLEAN]
    /\ nm = NoCall

NextLoad ==
    \/ StartLoad
    \/ AttemptOfflinePrimary
    \/ AttemptOnlinePrimary
    \/ AttemptFallback
    \/ ServeEmbed

SpecLoad == InitLoad /\ [][NextLoad]_vars


(***************************************************************************)
(* SpecResolve: _resolve_embedding_config called twice in one process,     *)
(* on blank, unknown and missing values as well.  nm.todo holds the inputs *)
(* of the calls still to make, nm.done the calls made: their inputs, the   *)
(* configuration as merged (before line 324) and as returned.              *)
(***************************************************************************)
ResolveDefaults ==
    LoadDefaults \cup {AppDefaults(" ", "Azure", " ", NONE, " ")}

RowBlank == Row(Settings(" ", "", " ", "", " "))
RowUnknown == Row(Settings("remote", "azure", ModelA, "sk-user", NONE))
RowApiBlank == Row(Settings("API", " custom ", " ", NONE, " "))

OverrideBlank == Settings("", "", "", "", "")
OverrideApi == [NoOverride EXCEPT !.embedding_mode = "Api "]

ResolveInputs ==
    [stored : {NoRow, ReadFailed, RowLocal, RowApiB, RowBlank, RowUnknown, RowApiBlank},
     override : {NoOverride, OverrideModelB, OverrideBlank, OverrideApi}]

\* config as it stands at line 323, after the three layers.
MergedConfig(defaults, stored, override) ==
    OverrideLayer(StoredLayer(DefaultLayer(defaults), stored), override)

ResolveCall ==
    /\ nm.op = "resolve"
    /\ nm.todo # <<>>
    /\ LET input == Head(nm.todo)
       IN  nm' = [op |-> "resolve",
                  todo |-> Tail(nm.todo),
                  done |-> Append(nm.done,
                      [stored |-> input.stored,
                       override |-> input.override,
                       merged |-> MergedConfig(app_settings, input.stored, input.override),
                       config |-> ResolveEmbeddingConfig(app_settings, input.stored,
                                                         input.override)])]
    /\ UNCHANGED <<app_settings, embedding_model, chroma, last, budget, log, emb>>

InitResolve ==
    /\ app_settings \in ResolveDefaults
    /\ embedding_model = NONE
    /\ chroma = <<>>
    /\ last = NoCall
    /\ budget = 0
    /\ log = <<>>
    /\ emb = NoCall
    /\ nm \in [op : {"resolve"}, todo : ResolveInputs \X ResolveInputs, done : {<<>>}]

NextResolve == ResolveCall

SpecResolve == InitResolve /\ [][NextResolve]_vars


(***************************************************************************)
(* SpecRebuild: POST /projects/{project_id}/rebuild-embeddings             *)
(* (rebuild_project_embeddings) applied to a store that holds earlier      *)
(* generations of the project.  The relational rows of the project are     *)
(* the first n of StoryRows; the initial states hold the inputs of one     *)
(* request (op = "pending").                                               *)
(***************************************************************************)
MaxRows == 11

MinBatchSize == 10
MaxBatchSize == 500

\* batch_size as clamped by the handler
ClampBatchSize(batch_size) ==
    IF batch_size < MinBatchSize THEN MinBatchSize
    ELSE IF batch_size > MaxBatchSize THEN MaxBatchSize
    ELSE batch_size

\* The i-th StoryMemory row of the project; the first row was ingested before
\* under vector id m1.
StoryMemory(i) ==
    [id |-> "r" \o ToString(i),
     vector_id |-> IF i = 1 THEN "m1" ELSE NONE,
     content |-> IF i % 2 = 1 THEN "a" ELSE "b",
     memory_type |-> "plot_point",
     chapter_id |-> IF i = 2 THEN NONE ELSE "ch-1",
     story_timeline |-> IF i = 2 THEN 0 ELSE 1,
     importance_score |-> IF i = 2 THEN 0 ELSE 8,
     title |-> IF i = 2 THEN NONE ELSE "Duel",
     is_foreshadow |-> 0]

StoryRows(n) == [i \in 1..n |-> StoryMemory(i)]

\* The record the handler builds of one row (`x or default`).
RebuildRecord(mem) ==
    [id |-> Or(mem.vector_id, mem.id),
     content |-> mem.content,
     type |-> mem.memory_type,
     metadata |-> [chapter_id |-> Or(mem.chapter_id, ""),
                   chapter_number |-> mem.story_timeline,
                   importance_score |->
                       IF mem.importance_score = 0 THEN DefaultImportance
                       ELSE mem.importance_score,
                   tags |-> <<>>,
                   title |-> Or(mem.title, ""),
                   is_foreshadow |-> mem.is_foreshadow,
                   related_characters |-> <<>>]]

\* memories[i:i + batch_size], i counted from 0
Chunk(memories, i, batch_size) ==
    SubSeq(memories, i + 1,
           IF i + batch_size < Len(memories) THEN i + batch_size ELSE Len(memories))

\* The loop over the batches from offset i on: `state` is the store, the model
\* attribute and the counts batch_add_memories returned so far; the store's add
\* raises in batch number fail_batch (0: in none).
RECURSIVE RebuildFrom(_, _, _, _, _, _, _, _, _)
RebuildFrom(state, memories, i, batch_size, defaults, user_id, project_id, resolved_config, fail_batch) ==
    IF i >= Len(memories) THEN state
    ELSE LET chunk == Chunk(memories, i, batch_size)
             records == [j \in 1..Len(chunk) |-> RebuildRecord(chunk[j])]
             http == IF ReachesRemote(resolved_config)
                     THEN RemoteAnswer("in_order", Contents(records),
                                       resolved_config.embedding_model)
                     ELSE NoHttp
             outcome == IngestOutcome(state.store, state.model, defaults, user_id,
                            project_id, records, FALSE, resolved_config, http, TRUE,
                            IF Len(state.added) + 1 = fail_batch THEN "add" ELSE "none")
         IN  RebuildFrom([store |-> outcome.store,
                          model |-> outcome.model,
                          added |-> Append(state.added, BatchAddResult(records, outcome))],
                         memories, i + batch_size, batch_size, defaults, user_id,
                         project_id, resolved_config, fail_batch)

RECURSIVE Sum(_)
Sum(counts) == IF counts = <<>> THEN 0 ELSE Head(counts) + Sum(Tail(counts))

\* The handler from the purge on: status 500 when the purge reports failure,
\* otherwise 200 with the counts of the response.
RebuildOutcome(store, model, defaults, user_id, project_id, memories, batch_size, resolved_config, purge_fail, fail_batch) ==
    LET purged == DeleteProjectOutcome(store, user_id, project_id, purge_fail)
        rebuilt == RebuildFrom([store |-> purged.store, model |-> model, added |-> <<>>],
                               memories, 0, ClampBatchSize(batch_size), defaults,
                               user_id, project_id, resolved_config, fail_batch)
    IN  IF ~purged.ok
        THEN [store |-> purged.store, model |-> model, status |-> 500,
              deleted_ok |-> FALSE, added |-> <<>>, rebuilt_memories |-> 0]
        ELSE IF Len(memories) = 0
        THEN [store |-> purged.store, model |-> model, status |-> 200,
              deleted_ok |-> TRUE, added |-> <<>>, rebuilt_memories |-> 0]
        ELSE [store |-> rebuilt.store, model |-> rebuilt.model, status |-> 200,
              deleted_ok |-> TRUE, added |-> rebuilt.added,
              rebuilt_memories |-> Sum(rebuilt.added)]

RebuildTenant == <<"user-20491", "project-1">>

\* Stores left by earlier ingestion: the project under the local and, possibly,
\* under an api configuration, and possibly another project of the user.
RebuildStores(model, defaults) ==
    {Plant(Plant(Plant(<<>>, model, defaults, RebuildTenant, local, Call(NoRow, NoOverride)),
                 model, defaults, RebuildTenant, api, Call(RowApiA, NoOverride)),
           model, defaults, <<"user-20491", "project-2">>, other, Call(NoRow, NoOverride)) :
        local \in {<<>>, <<"M1">>, <<"M2", "M3">>},
        api \in {<<>>, <<"M2">>},
        other \in {<<>>, <<"M3">>}}

RebuildInputs ==
    [op : {"pending"},
     stored : {NoRow, RowApiA},
     n : {0, 1, MaxRows},
     batch_size : {1, 10, 600},
     purge : {"none", "list", "loop"},
     fail_batch : 0..2]

PurgeFailure(kind) ==
    IF kind = "list" THEN ListFails
    ELSE IF kind = "loop" THEN LoopFails({})
    ELSE NoFailure

RebuildProjectEmbeddings ==
    /\ last.op = "pending"
    /\ LET resolved_config == Resolved(Call(last.stored, NoOverride))
           names == ListProjectCollectionNames(DOMAIN chroma, RebuildTenant[1],
                                               RebuildTenant[2])
           purge_fail == IF last.purge = "loop" /\ names = {} THEN NoFailure
                         ELSE PurgeFailure(last.purge)
           outcome == RebuildOutcome(chroma, embedding_model, app_settings,
                          RebuildTenant[1], RebuildTenant[2], StoryRows(last.n),
                          last.batch_size, resolved_config, purge_fail, last.fail_batch)
       IN  /\ chroma' = outcome.store
           /\ embedding_model' = outcome.model
           /\ last' = [op |-> "rebuild_project_embeddings",
                       user_id |-> RebuildTenant[1],
                       project_id |-> RebuildTenant[2],
                       name |-> BuildCollectionName(RebuildTenant[1], RebuildTenant[2],
                                                    resolved_config),
                       n |-> last.n,
                       batch_size |-> ClampBatchSize(last.batch_size),
                       purge |-> purge_fail.kind,
                       status |-> outcome.status,
                       deleted_ok |-> outcome.deleted_ok,
                       added |-> outcome.added,
                       rebuilt_memories |-> outcome.rebuilt_memories]
    /\ UNCHANGED <<app_settings, budget, log, emb, nm>>

InitRebuild ==
    /\ app_settings = AppDefaults(NONE, NONE, NONE, NONE, NONE)
    /\ embedding_model \in InitialModels(app_settings)
    /\ chroma \in RebuildStores(embedding_model, app_settings)
    /\ last \in RebuildInputs
    /\ budget = 0
    /\ log = <<>>
    /\ emb = NoCall
    /\ nm = NoCall

NextRebuild == RebuildProjectEmbeddings

SpecRebuild == InitRebuild /\ [][NextRebuild]_vars


(***************************************************************************)
(* get_recent_memories and find_unresolved_foreshadows: a collection.get   *)
(* with a where-filter and a limit, then a sort of what it returned.       *)
(***************************************************************************)
RecentLimit == 100
RecentTop == 20
ForeshadowLimit == 50

\* collection.get(where=..., limit=...): at most `limit` of the matching records,
\* in an order the store chooses.
CollectionGet(records, where, limit) ==
    LET matching == {id \in DOMAIN records : Matches(records[id].metadata, where)}
        k == IF limit < Cardinality(matching) THEN limit ELSE Cardinality(matching)
    IN  {ids \in [1..k -> matching] : \A i, j \in 1..k : i < j => ids[i] # ids[j]}

\* memories.append({"id", "content", "metadata"}) for every id returned
Fetched(records, ids) ==
    [i \in 1..Len(ids) |->
        [id |-> ids[i], content |-> records[ids[i]].document,
         metadata |-> records[ids[i]].metadata]]

\* Python's order of two key tuples of one length
Greater(a, b) ==
    \E k \in 1..Len(a) : a[k] > b[k] /\ \A m \in 1..(k - 1) : a[m] = b[m]

Unsorted(items, keys) == items
\* items.sort(key=..., reverse=True), keys[i] the key of items[i]: descending by
\* key, items of equal keys in the order they had.
SortReverse(items, keys) ==
    LET n == Len(items)
        Before(j, i) == Greater(keys[j], keys[i]) \/ (keys[j] = keys[i] /\ j < i)
        Rank(i) == Cardinality({j \in 1..n : Before(j, i)})
    IN  [p \in 1..n |-> items[CHOOSE i \in 1..n : Rank(i) = p - 1]]

\* items[:n]
Take(items, n) == IF Len(items) > n THEN SubSeq(items, 1, n) ELSE items

UnclampedStart(current_chapter, recent_count) == current_chapter - recent_count
\* start_chapter = max(1, current_chapter - recent_count)
StartChapter(current_chapter, recent_count) ==
    IF current_chapter - recent_count < 1 THEN 1 ELSE current_chapter - recent_count

RecentWhere(current_chapter, recent_count, min_importance) ==
    Conjunction(<<Condition("chapter_number", "$gte", <<>>,
                            StartChapter(current_chapter, recent_count)),
                  Condition("chapter_number", "$lt", <<>>, current_chapter),
                  Condition("importance", "$gte", <<>>, min_importance)>>)

ForeshadowWhere(current_chapter) ==
    Conjunction(<<Condition("is_foreshadow", "$eq", <<>>, 1),
                  Condition("chapter_number", "$lt", <<>>, current_chapter)>>)

\* The two calls from the resolved configuration on: the outcomes they can have.
\* store_fail is "none", "get_or_create" or "get"; any exception gives [].
GetRecentOutcomes(store, user_id, project_id, current_chapter, recent_count, min_importance, resolved_config, store_fail) ==
    LET name == BuildCollectionName(user_id, project_id, resolved_config)
        created == GetCollection(store, user_id, project_id, resolved_config)
        where == RecentWhere(current_chapter, recent_count, min_importance)
    IN  IF store_fail = "get_or_create" THEN {[store |-> store, result |-> <<>>]}
        ELSE IF store_fail = "get" THEN {[store |-> created, result |-> <<>>]}
        ELSE {LET memories == Fetched(created[name].records, ids)
                  keys == [i \in 1..Len(memories) |->
                              <<memories[i].metadata.importance,
                                memories[i].metadata.chapter_number>>]
              IN  [store |-> created,
                   result |-> Take(SortReverse(memories, keys), RecentTop)] :
                 ids \in CollectionGet(created[name].records, where, RecentLimit)}

FindForeshadowsOutcomes(store, user_id, project_id, current_chapter, resolved_config, store_fail) ==
    LET name == BuildCollectionName(user_id, project_id, resolved_config)
        created == GetCollection(store, user_id, project_id, resolved_config)
        where == ForeshadowWhere(current_chapter)
    IN  IF store_fail = "get_or_create" THEN {[store |-> store, result |-> <<>>]}
        ELSE IF store_fail = "get" THEN {[store |-> created, result |-> <<>>]}
        ELSE {LET foreshadows == Fetched(created[name].records, ids)
                  keys == [i \in 1..Len(foreshadows) |->
                              <<foreshadows[i].metadata.importance>>]
              IN  [store |-> created, result |-> SortReverse(foreshadows, keys)] :
                 ids \in CollectionGet(created[name].records, where, ForeshadowLimit)}

(***************************************************************************)
(* SpecRecall: one of the two calls on a store that holds the project      *)
(* under the local and, possibly, under an api configuration.              *)
(***************************************************************************)
RecallTenant == <<"user-20491", "project-1">>

RecallStores(model, defaults) ==
    {Plant(Plant(<<>>, model, defaults, RecallTenant, local, Call(NoRow, NoOverride)),
           model, defaults, RecallTenant, api, Call(RowApiA, NoOverride)) :
        local \in {<<>>, <<"M2", "M3">>, <<"M1b", "M2", "M3", "M4">>, <<"M1", "M2", "M3", "M4">>},
        api \in {<<>>, <<"M2">>}}

CurrentChapters == {0, 1, 2, 3}
RecentCounts == {0, 1, 3}
Floors == {0, 5, 9}
GetFailures == {"none", "get_or_create", "get"}

GetRecentMemories ==
    /\ Served
    /\ \E call \in CallConfigs, current_chapter \in CurrentChapters, recent_count \in RecentCounts, min_importance \in Floors, store_fail \in GetFailures :
         LET resolved_config == Resolved(call)
         IN  \E outcome \in GetRecentOutcomes(chroma, RecallTenant[1], RecallTenant[2],
                                current_chapter, recent_count, min_importance,
                                resolved_config, store_fail) :
                 /\ chroma' = outcome.store
                 /\ last' = [op |-> "get_recent_memories",
                             name |-> BuildCollectionName(RecallTenant[1], RecallTenant[2],
                                                          resolved_config),
                             current_chapter |-> current_chapter,
                             recent_count |-> recent_count,
                             min_importance |-> min_importance,
                             store_fail |-> store_fail,
                             result |-> outcome.result]
    /\ UNCHANGED <<app_settings, embedding_model, log, emb, nm>>

FindUnresolvedForeshadows ==
    /\ Served
    /\ \E call \in CallConfigs, current_chapter \in CurrentChapters, store_fail \in GetFailures :
         LET resolved_config == Resolved(call)
         IN  \E outcome \in FindForeshadowsOutcomes(chroma, RecallTenant[1],
                                RecallTenant[2], current_chapter, resolved_config,
                                store_fail) :
                 /\ chroma' = outcome.store
                 /\ last' = [op |-> "find_unresolved_foreshadows",
                             name |-> BuildCollectionName(RecallTenant[1], RecallTenant[2],
                                                          resolved_config),
                             current_chapter |-> current_chapter,
                             store_fail |-> store_fail,
                             result |-> outcome.result]
    /\ UNCHANGED <<app_settings, embedding_model, log, emb, nm>>

InitRecall ==
    /\ app_settings = AppDefaults(NONE, NONE, NONE, NONE, NONE)
    /\ embedding_model \in InitialModels(app_settings)
    /\ chroma \in RecallStores(embedding_model, app_settings)
    /\ last = NoCall
    /\ budget = 1
    /\ log = <<>>
    /\ emb = NoCall
    /\ nm = NoCall

NextRecall ==
    \/ GetRecentMemories
    \/ FindUnresolvedForeshadows

SpecRecall == InitRecall /\ [][NextRecall]_vars


(***************************************************************************)
(* split_text_for_embedding (book_analysis_service).  A text is the        *)
(* sequence of its characters.                                             *)
(***************************************************************************)
DefaultChunkSize == 1800
DefaultOverlap == 150

IsSpace(c) == c \in {" ", "\n", "\t"}

\* " ".join(text.split()): runs of whitespace become one space, those at the two
\* ends are dropped.
Cleaned(text) ==
    LET n == Len(text)
        Kept(i) == \/ ~IsSpace(text[i])
                   \/ /\ i > 1
                      /\ ~IsSpace(text[i - 1])
                      /\ \E j \in (i + 1)..n : ~IsSpace(text[j])
        marked == [i \in 1..n |-> IF ~Kept(i) THEN "" ELSE IF IsSpace(text[i]) THEN " "
                                  ELSE text[i]]
        IsKept(c) == c # ""
    IN  SelectSeq(marked, IsKept)

\* text[start:end], offsets counted from 0
Slice(text, start, end) == SubSeq(text, start + 1, end)

\* str.strip() of a sequence of characters
StripChars(text) ==
    LET n == Len(text)
    IN  IF \A i \in 1..n : IsSpace(text[i]) THEN <<>>
        ELSE LET lo == CHOOSE i \in 1..n :
                           ~IsSpace(text[i]) /\ \A j \in 1..(i - 1) : IsSpace(text[j])
                 hi == CHOOSE i \in 1..n :
                           ~IsSpace(text[i]) /\ \A j \in (i + 1)..n : IsSpace(text[j])
             IN  SubSeq(text, lo, hi)

StepIgnoringOverlap(chunk_size, overlap) == chunk_size
\* step = max(1, chunk_size - overlap)
Step(chunk_size, overlap) ==
    IF chunk_size - overlap < 1 THEN 1 ELSE chunk_size - overlap

\* The while loop from `start` on: one [start, end, part] for every chunk appended.
RECURSIVE SplitFrom(_, _, _, _)
SplitFrom(cleaned, start, chunk_size, step) ==
    IF start >= Len(cleaned) THEN <<>>
    ELSE LET end == IF Len(cleaned) < start + chunk_size THEN Len(cleaned)
                    ELSE start + chunk_size
             part == StripChars(Slice(cleaned, start, end))
             appended == IF part # <<>>
                         THEN <<[start |-> start, end |-> end, part |-> part]>>
                         ELSE <<>>
         IN  IF end >= Len(cleaned) THEN appended
             ELSE appended \o SplitFrom(cleaned, start + step, chunk_size, step)

\* The [start, end] of every pass of the while loop, whether or not it appended.
RECURSIVE WindowsFrom(_, _, _, _)
WindowsFrom(cleaned, start, chunk_size, step) ==
    IF start >= Len(cleaned) THEN <<>>
    ELSE LET end == IF Len(cleaned) < start + chunk_size THEN Len(cleaned)
                    ELSE start + chunk_size
         IN  IF end >= Len(cleaned) THEN <<[start |-> start, end |-> end]>>
             ELSE <<[start |-> start, end |-> end]>>
                  \o WindowsFrom(cleaned, start + step, chunk_size, step)

\* The windows of a text longer than chunk_size (no loop runs on a shorter one).
SplitWindows(text, chunk_size, overlap) ==
    LET cleaned == Cleaned(text)
    IN  IF Len(cleaned) <= chunk_size THEN <<>>
        ELSE WindowsFrom(cleaned, 0, chunk_size, Step(chunk_size, overlap))

NeverBlank(cleaned) == FALSE
\* `if not cleaned`
IsBlank(cleaned) == cleaned = <<>>

\* The chunks with the offsets they were cut at.
SplitParts(text, chunk_size, overlap) ==
    LET cleaned == Cleaned(text)
    IN  IF IsBlank(cleaned) THEN <<>>
        ELSE IF Len(cleaned) <= chunk_size
        THEN <<[start |-> 0, end |-> Len(cleaned), part |-> cleaned]>>
        ELSE SplitFrom(cleaned, 0, chunk_size, Step(chunk_size, overlap))

SplitTextForEmbedding(text, chunk_size, overlap) ==
    LET parts == SplitParts(text, chunk_size, overlap)
    IN  [k \in 1..Len(parts) |-> parts[k].part]

(***************************************************************************)
(* SpecSplit: the function applied to one text.  A text of the inputs is   *)
(* n characters: `pad` spaces, then letters with a whitespace character at *)
(* every multiple of `gap` (two of them when `double`).                    *)
(***************************************************************************)
SampleText(n, gap, pad, double) ==
    [i \in 1..n |->
        IF i <= pad THEN " "
        ELSE IF gap > 0 /\ i % gap = 0 THEN (IF i % 2 = 0 THEN " " ELSE "\n")
        ELSE IF gap > 0 /\ double /\ i % gap = 1 /\ i > gap THEN "\t"
        ELSE "x"]

SplitInputs ==
    [op : {"pending"}, n : {0, 1, 2, 5, 9, 12}, gap : {0, 2, 3}, pad : {0, 2},
     double : BOOLEAN, chunk_size : {1, 2, 4}, overlap : {0, 1, 5}]
    \cup [op : {"pending"}, n : {3999, 4000, 4002}, gap : {0, 13}, pad : {0, 2},
          double : {FALSE}, chunk_size : {DefaultChunkSize}, overlap : {DefaultOverlap}]

SplitText ==
    /\ last.op = "pending"
    /\ LET text == SampleText(last.n, last.gap, last.pad, last.double)
       IN  last' = [op |-> "split_text_for_embedding",
                    cleaned |-> Cleaned(text),
                    chunk_size |-> last.chunk_size,
                    overlap |-> last.overlap,
                    parts |-> SplitParts(text, last.chunk_size, last.overlap),
                    windows |-> SplitWindows(text, last.chunk_size, last.overlap),
                    chunks |-> SplitTextForEmbedding(text, last.chunk_size,
                                                     last.overlap)]
    /\ UNCHANGED <<app_settings, embedding_model, chroma, budget, log, emb, nm>>

InitSplit ==
    /\ app_settings = AppDefaults(NONE, NONE, NONE, NONE, NONE)
    /\ embedding_model = NONE
    /\ chroma = <<>>
    /\ last \in SplitInputs
    /\ budget = 0
    /\ log = <<>>
    /\ emb = NoCall
    /\ nm = NoCall

NextSplit == SplitText

SpecSplit == InitSplit /\ [][NextSplit]_vars

\* The call made is a call that returns: the function is computed in one step,
\* which weak fairness lets happen.  The texts are the short ones.
ShortSplitInputs == {input \in SplitInputs : input.n <= 12}

InitSplitLive ==
    /\ app_settings = AppDefaults(NONE, NONE, NONE, NONE, NONE)
    /\ embedding_model = NONE
    /\ chroma = <<>>
    /\ last \in ShortSplitInputs
    /\ budget = 0
    /\ log = <<>>
    /\ emb = NoCall
    /\ nm = NoCall

SpecSplitLive == InitSplitLive /\ [][NextSplit]_vars /\ WF_vars(NextSplit)


(***************************************************************************)
(* chinese_to_int and extract_chapter_number (book_analysis_service).  A   *)
(* text is the sequence of its characters; the CJK characters are written  *)
(* by their readings: ling, ling0 (the circle zero), yi, er, liang, san,   *)
(* si, wu, liu, qi, ba, jiu, the units shi, bai, qian, wan, and di / zhang *)
(* for the two characters around a chapter number.  "sup2" is the          *)
(* superscript two, a digit to str.isdigit() that int() refuses.           *)
(***************************************************************************)
CN_DIGITS ==
    [ling |-> 0, ling0 |-> 0, yi |-> 1, er |-> 2, liang |-> 2, san |-> 3, si |-> 4,
     wu |-> 5, liu |-> 6, qi |-> 7, ba |-> 8, jiu |-> 9]

CN_UNITS == [shi |-> 10, bai |-> 100, qian |-> 1000, wan |-> 10000]

DecimalDigits ==
    [c \in {"0", "1", "2", "3", "4", "5", "6", "7", "8", "9"} |->
        CASE c = "0" -> 0 [] c = "1" -> 1 [] c = "2" -> 2 [] c = "3" -> 3 [] c = "4" -> 4
          [] c = "5" -> 5 [] c = "6" -> 6 [] c = "7" -> 7 [] c = "8" -> 8 [] c = "9" -> 9]

\* str.isdigit() and int(str) of a sequence of characters
IsDigitText(raw) ==
    raw # <<>> /\ \A i \in 1..Len(raw) : raw[i] \in (DOMAIN DecimalDigits) \cup {"sup2"}

RECURSIVE IntOf(_)
IntOf(raw) ==
    IF raw = <<>> THEN 0
    ELSE 10 * IntOf(SubSeq(raw, 1, Len(raw) - 1)) + DecimalDigits[raw[Len(raw)]]

NoValue == [kind |-> "none"]
IntValue(n) == [kind |-> "int", value |-> n]
ValueError == [kind |-> "raises"]

\* The for loop over raw[i..]: total, section and number so far.
RECURSIVE Accumulate(_, _, _, _, _)
Accumulate(raw, i, total, section, number) ==
    IF i > Len(raw)
    THEN LET value == total + section + number
         IN  IF value > 0 THEN IntValue(value) ELSE NoValue
    ELSE LET ch == raw[i]
         IN  IF ch \in DOMAIN CN_DIGITS
             THEN Accumulate(raw, i + 1, total, section, CN_DIGITS[ch])
             ELSE IF ch \notin DOMAIN CN_UNITS THEN NoValue
             ELSE IF CN_UNITS[ch] = 10000
             THEN Accumulate(raw, i + 1, total + (section + number) * CN_UNITS[ch], 0, 0)
             ELSE Accumulate(raw, i + 1, total,
                             section + (IF number = 0 THEN 1 ELSE number) * CN_UNITS[ch], 0)

ChineseToInt(text) ==
    LET raw == StripChars(text)
    IN  IF raw = <<>> THEN NoValue
        ELSE IF IsDigitText(raw)
        THEN (IF \E i \in 1..Len(raw) : raw[i] = "sup2" THEN ValueError
              ELSE IntValue(IntOf(raw)))
        ELSE Accumulate(raw, 1, 0, 0, 0)

\* pattern.search(title) for a pattern `[class]+`: the first longest run of
\* characters of the class, <<>> when there is none.
FirstRun(title, class) ==
    IF \A i \in 1..Len(title) : title[i] \notin class THEN <<>>
    ELSE LET from == CHOOSE i \in 1..Len(title) :
                         title[i] \in class /\ \A j \in 1..(i - 1) : title[j] \notin class
             to == CHOOSE k \in from..Len(title) :
                       /\ \A j \in from..k : title[j] \in class
                       /\ k = Len(title) \/ title[k + 1] \notin class
         IN  SubSeq(title, from, to)

ExtractChapterNumber(title, fallback_index) ==
    LET digit_match == FirstRun(title, DOMAIN DecimalDigits)
        cn_match == FirstRun(title, (DOMAIN CN_DIGITS) \cup (DOMAIN CN_UNITS))
        converted == ChineseToInt(cn_match)
    IN  IF digit_match # <<>> THEN IntOf(digit_match)
        ELSE IF cn_match # <<>> /\ converted.kind = "int" /\ converted.value # 0
        THEN converted.value
        ELSE fallback_index

(***************************************************************************)
(* SpecNumeral: the two functions applied to one text.  NumeralOf(n) is the *)
(* usual writing of n, 1 <= n <= 99999.                                    *)
(***************************************************************************)
DigitChar(d) == <<"ling", "yi", "er", "san", "si", "wu", "liu", "qi", "ba", "jiu">>[d + 1]

\* The writing of one section 1..9999.
WrittenSection(m) ==
    LET q == m \div 1000
        b == (m \div 100) % 10
        t == (m \div 10) % 10
        g == m % 10
    IN  (IF q > 0 THEN <<DigitChar(q), "qian">> ELSE <<>>)
        \o (IF b > 0 THEN <<DigitChar(b), "bai">>
            ELSE IF q > 0 /\ (t > 0 \/ g > 0) THEN <<"ling">> ELSE <<>>)
        \o (IF t > 0 THEN <<DigitChar(t), "shi">>
            ELSE IF b > 0 /\ g > 0 THEN <<"ling">> ELSE <<>>)
        \o (IF g > 0 THEN <<DigitChar(g)>> ELSE <<>>)

NumeralOf(n) ==
    IF n \in 10..19 THEN <<"shi">> \o (IF n > 10 THEN <<DigitChar(n - 10)>> ELSE <<>>)
    ELSE IF n < 10000 THEN WrittenSection(n)
    ELSE WrittenSection(n \div 10000) \o <<"wan">>
         \o (IF n % 10000 = 0 THEN <<>>
             ELSE IF n % 10000 < 1000 THEN <<"ling">> \o WrittenSection(n % 10000)
             ELSE WrittenSection(n % 10000))

MaxSmallValue == 120

SampleValues ==
    (1..MaxSmallValue) \cup {200, 205, 250, 999, 1000, 1005, 1010, 1100, 2000, 9009, 9999,
                             10000, 10005, 10050, 12000, 20300, 99999}

\* Other texts: the colloquial two thousand, a numeral within spaces, and texts
\* that are no numerals.
OtherTexts ==
    {<<"liang", "qian">>, <<" ", "san", "shi", "er", " ">>, <<"yi", "shi", "er">>,
     <<>>, <<" ">>, <<"ling">>, <<"ling0", "ling">>, <<"wan">>,
     <<"yi", "er">>, <<"san", "wu">>, <<"yi", "ling", "wu">>, <<"er", "ling0", "er", "wu">>,
     <<"x">>, <<"yi", "x">>, <<"san", "shi", "x", "er">>,
     <<"1", "2">>, <<"0">>, <<"sup2">>, <<"1", "sup2">>}

NumeralTexts == {NumeralOf(n) : n \in SampleValues} \cup OtherTexts

FallbackIndexes == {7}

ConvertNumeral ==
    /\ last.op = "pending"
    /\ last' = [op |-> "chinese_to_int", text |-> last.text,
                result |-> ChineseToInt(last.text)]
    /\ UNCHANGED <<app_settings, embedding_model, chroma, budget, log, emb, nm>>

\* extract_chapter_number of the title made of the text between di and zhang
ExtractNumber ==
    /\ last.op = "pending"
    /\ LET title == <<"di">> \o last.text \o <<"zhang">>
       IN  last' = [op |-> "extract_chapter_number", text |-> last.text,
                    title |-> title, fallback_index |-> last.fallback_index,
                    result |-> ExtractChapterNumber(title, last.fallback_index)]
    /\ UNCHANGED <<app_settings, embedding_model, chroma, budget, log, emb, nm>>

InitNumeral ==
    /\ app_settings = AppDefaults(NONE, NONE, NONE, NONE, NONE)
    /\ embedding_model = NONE
    /\ chroma = <<>>
    /\ last \in [op : {"pending"}, text : NumeralTexts, fallback_index : FallbackIndexes]
    /\ budget = 0
    /\ log = <<>>
    /\ emb = NoCall
    /\ nm = NoCall

NextNumeral ==
    \/ ConvertNumeral
    \/ ExtractNumber

SpecNumeral == InitNumeral /\ [][NextNumeral]_vars


(***************************************************************************)
(* select_chapter_range (book_analysis_service).  An optional integer is   *)
(* <<>> (None) or <<v>>.                                                   *)
(***************************************************************************)
MaxChapters == 10

Missing == <<>>
Given(v) == <<v>>

\* `value or default` of an optional integer: None and 0 are falsy
OrDefault(value, default) ==
    IF value = Missing \/ value[1] = 0 THEN default ELSE value[1]

\* The chapters a split detected, by their index.
DetectedChapters(n) == [i \in 1..n |-> [index |-> i]]

SelectChapterRange(chapters, start_chapter, end_chapter) ==
    LET max_index == Len(chapters)
        start == OrDefault(start_chapter, 1)
        end == OrDefault(end_chapter, max_index)
        clamped_start == IF start < 1 THEN 1 ELSE start
        clamped_end == IF end > max_index THEN max_index ELSE end
        InRange(ch) == clamped_start <= ch.index /\ ch.index <= clamped_end
    IN  IF chapters = <<>> THEN [selected |-> <<>>, start |-> 0, end |-> 0]
        ELSE IF start > max_index THEN [selected |-> <<>>, start |-> start, end |-> end]
        ELSE IF clamped_start > clamped_end
        THEN [selected |-> <<>>, start |-> clamped_start, end |-> clamped_end]
        ELSE [selected |-> SelectSeq(chapters, InRange),
              start |-> clamped_start, end |-> clamped_end]

(***************************************************************************)
(* SpecSelect: the function applied to the chapters of one book.           *)
(***************************************************************************)
ChapterCounts == {0, 1, 3, MaxChapters}

ChapterBounds == {Missing} \cup {Given(v) : v \in (0 - 1)..(MaxChapters + 1)} \cup {Given(20)}

SelectRange ==
    /\ last.op = "pending"
    /\ LET chapters == DetectedChapters(last.n)
           out == SelectChapterRange(chapters, last.start_chapter, last.end_chapter)
       IN  last' = [op |-> "select_chapter_range", chapters |-> chapters,
                    start_chapter |-> last.start_chapter,
                    end_chapter |-> last.end_chapter,
                    selected |-> out.selected, start |-> out.start, end |-> out.end]
    /\ UNCHANGED <<app_settings, embedding_model, chroma, budget, log, emb, nm>>

InitSelect ==
    /\ app_settings = AppDefaults(NONE, NONE, NONE, NONE, NONE)
    /\ embedding_model = NONE
    /\ chroma = <<>>
    /\ last \in [op : {"pending"}, n : ChapterCounts, start_chapter : ChapterBounds, end_chapter : ChapterBounds]
    /\ budget = 0
    /\ log = <<>>
    /\ emb = NoCall
    /\ nm = NoCall

NextSelect == SelectRange

SpecSelect == InitSelect /\ [][NextSelect]_vars


(***************************************************************************)
(* Chapter context assembly (chapter_context_service).  Texts are strings; *)
(* the labels of the rendered texts are written in English.  A column that *)
(* holds JSON is a record: kind "none" (NULL), "blank" (""), "invalid" (no *)
(* JSON), "array" (JSON that is no object) or "object" with `value` the    *)
(* parsed dict.  A similarity is a number of tenths.                       *)
(***************************************************************************)
ENDING_LENGTH == 500
MEMORY_COUNT == 10
MEMORY_SIMILARITY_THRESHOLD == 6
RECENT_CHAPTERS_COUNT == 10

NoJson == [kind |-> "none"]
BlankJson == [kind |-> "blank"]
InvalidJson == [kind |-> "invalid"]
ArrayJson == [kind |-> "array"]
ObjectJson(value) == [kind |-> "object", value |-> value]

\* truthiness of the column, and what json.loads makes of it
HasText(column) == column.kind \notin {"none", "blank"}
Parses(column) == column.kind \in {"object", "array"}

\* dict.get(key, default)
Get(dict, key, default) == IF key \in DOMAIN dict THEN dict[key] ELSE default

\* sep.join(items)
RECURSIVE Join(_, _)
Join(items, sep) ==
    IF items = <<>> THEN ""
    ELSE IF Len(items) = 1 THEN items[1]
    ELSE items[1] \o sep \o Join(Tail(items), sep)

\* text[:n] and text[-n:]
Prefix(text, n) == IF Len(text) > n THEN SubSeq(text, 1, n) ELSE text
Suffix(text, n) == IF Len(text) > n THEN SubSeq(text, Len(text) - n + 1, Len(text)) ELSE text

\* An exception left the builder.
Raises == [raised |-> TRUE]

\* _build_chapter_outline_1n; a plan that is JSON but no object has no .get
BuildChapterOutline1N(chapter, outline) ==
    IF HasText(chapter.expansion_plan) /\ chapter.expansion_plan.kind = "array" THEN Raises
    ELSE IF HasText(chapter.expansion_plan) /\ chapter.expansion_plan.kind = "object"
    THEN LET plan == chapter.expansion_plan.value
         IN  [raised |-> FALSE,
              text |-> "Plot summary: " \o Get(plan, "plot_summary", "none")
                       \o "\n\nKey events:\n"
                       \o Join([i \in 1..Len(Get(plan, "key_events", <<>>)) |->
                                    "- " \o Get(plan, "key_events", <<>>)[i]], "\n")
                       \o "\n\nCharacter focus: " \o Join(Get(plan, "character_focus", <<>>), ", ")
                       \o "\nEmotional tone: " \o Get(plan, "emotional_tone", "unset")
                       \o "\nNarrative goal: " \o Get(plan, "narrative_goal", "unset")
                       \o "\nConflict type: " \o Get(plan, "conflict_type", "unset")]
    ELSE [raised |-> FALSE,
          text |-> IF outline.exists THEN outline.content
                   ELSE Or(chapter.summary, "no outline yet")]

\* _extract_emotional_tone
ExtractEmotionalTone(chapter, outline) ==
    LET plan == chapter.expansion_plan
        structure == outline.structure
        plan_tone == IF plan.kind = "object" THEN Get(plan.value, "emotional_tone", NONE)
                     ELSE NONE
        structure_tone == IF outline.exists /\ structure.kind = "object"
                          THEN Or(Get(structure.value, "emotion", NONE),
                                  Get(structure.value, "emotional_tone", NONE))
                          ELSE NONE
    IN  IF plan.kind = "array" \/ (~Truthy(plan_tone) /\ outline.exists /\ structure.kind = "array")
        THEN Raises
        ELSE [raised |-> FALSE,
              text |-> IF Truthy(plan_tone) THEN plan_tone
                       ELSE IF Truthy(structure_tone) THEN structure_tone
                       ELSE "unset"]

\* One line of _build_recent_chapters_context, <<>> when the chapter adds none.
RecentLine(ch) ==
    LET head == "Chapter " \o ToString(ch.chapter_number) \o " <" \o ch.title \o ">: "
        plan == ch.expansion_plan
        events == Get(plan.value, "key_events", <<>>)
        events_str == Join(SubSeq(events, 1, IF Len(events) > 3 THEN 3 ELSE Len(events)), "; ")
    IN  IF HasText(plan) /\ plan.kind = "object"
        THEN <<head \o Get(plan.value, "plot_summary", "")
                 \o (IF events_str # "" THEN " (key events: " \o events_str \o ")" ELSE "")>>
        ELSE IF Truthy(ch.summary) /\ plan.kind # "array"
        THEN <<head \o Prefix(ch.summary, 100)>>
        ELSE <<>>

RECURSIVE RecentLines(_)
RecentLines(chapters) ==
    IF chapters = <<>> THEN <<>> ELSE RecentLine(Head(chapters)) \o RecentLines(Tail(chapters))

\* _build_recent_chapters_context: `earlier` are the chapters before this one,
\* ascending; any exception gives None.
BuildRecentChaptersContext(earlier, query_fails) ==
    LET n == Len(earlier)
        recent_chapters == SubSeq(earlier, IF n > RECENT_CHAPTERS_COUNT
                                           THEN n - RECENT_CHAPTERS_COUNT + 1 ELSE 1, n)
        lines == <<"[Recent chapter plans]">> \o RecentLines(recent_chapters)
    IN  IF query_fails THEN NONE
        ELSE IF recent_chapters = <<>> THEN NONE
        ELSE IF \E i \in 1..Len(recent_chapters) : recent_chapters[i].expansion_plan.kind = "array"
        THEN NONE
        ELSE IF Len(lines) <= 1 THEN NONE
        ELSE Join(lines, "\n")

NoChapter == [exists |-> FALSE]

\* _get_last_ending_enhanced: prev_chapter is the latest chapter before this one
\* (NoChapter when there is none), summary_mem the content of its chapter_summary
\* memory (NONE when there is none).
GetLastEndingEnhanced(chapter, prev_chapter, summary_mem, max_length) ==
    LET nothing == [raised |-> FALSE, ending_text |-> NONE, summary |-> NONE]
        content == Strip(prev_chapter.content)
        ending_text == IF Truthy(prev_chapter.content)
                       THEN (IF Len(content) <= max_length THEN content
                             ELSE Suffix(content, max_length))
                       ELSE NONE
        plan == prev_chapter.expansion_plan
        summary == IF Truthy(summary_mem) THEN Prefix(summary_mem, 300)
                   ELSE IF Truthy(prev_chapter.summary) THEN Prefix(prev_chapter.summary, 300)
                   ELSE IF HasText(plan) /\ plan.kind = "object"
                   THEN Prefix(Get(plan.value, "plot_summary", ""), 300)
                   ELSE NONE
    IN  IF chapter.chapter_number <= 1 THEN nothing
        ELSE IF ~prev_chapter.exists THEN nothing
        ELSE IF HasText(plan) /\ plan.kind = "array" THEN Raises
        ELSE [raised |-> FALSE, ending_text |-> ending_text, summary |-> summary]

\* The lines of the memories above the threshold, at most MEMORY_COUNT of them.
MemoryLines(relevant_memories) ==
    LET IsRelevant(mem) == mem.similarity > MEMORY_SIMILARITY_THRESHOLD
        filtered_memories == SelectSeq(relevant_memories, IsRelevant)
        shown == SubSeq(filtered_memories, 1,
                        IF Len(filtered_memories) > MEMORY_COUNT THEN MEMORY_COUNT
                        ELSE Len(filtered_memories))
    IN  [i \in 1..Len(shown) |->
            "- (similarity:" \o ToString(shown[i].similarity) \o ") "
                \o Prefix(shown[i].content, 100)]

\* _get_relevant_memories_enhanced: `search` is what search_memories answers
\* ([raised |-> TRUE] when it raises, else its result).
GetRelevantMemoriesEnhanced(has_memory_service, search) ==
    IF ~has_memory_service THEN NONE
    ELSE IF search.raised THEN NONE
    ELSE IF MemoryLines(search.result) = <<>> THEN NONE
    ELSE Join(<<"[Relevant memories]">> \o MemoryLines(search.result), "\n")

\* The block _build_chapter_characters_1n renders of one character (the project
\* has no relationship, membership or CharacterCareer rows).
CharacterBlock(c, careers) ==
    LET entity_type == IF c.is_organization THEN "organization" ELSE "character"
        role_type == CASE c.role_type = "protagonist" -> "lead"
                       [] c.role_type = "antagonist" -> "villain"
                       [] c.role_type = "supporting" -> "support"
                       [] OTHER -> Or(c.role_type, "support")
        Line(label, value, limit) ==
            IF Truthy(value) THEN <<"  " \o label \o ": " \o Prefix(value, limit)>> ELSE <<>>
    IN  Join(<<"[" \o c.name \o "](" \o entity_type \o ", " \o role_type \o ")">>
             \o Line("age", c.age, Len(c.age))
             \o Line("appearance", c.appearance, 100)
             \o Line("background", c.background, 150)
             \o (IF ~c.is_organization /\ Truthy(c.main_career_id)
                    /\ c.main_career_id \in DOMAIN careers
                 THEN <<"  main career: " \o careers[c.main_career_id].name \o " (stage 1)">>
                 ELSE <<>>)
             \o (IF c.is_organization /\ Truthy(c.organization_type)
                 THEN <<"  organization type: " \o c.organization_type>> ELSE <<>>),
             "\n")

\* The block of one career of careers_map (the careers have no stages).
CareerBlock(career) ==
    Join(<<career.name \o " (" \o career.type \o " career)">>
         \o (IF Truthy(career.description)
             THEN <<"  description: " \o career.description>> ELSE <<>>)
         \o (IF Truthy(career.special_abilities)
             THEN <<"  special abilities: " \o career.special_abilities>> ELSE <<>>),
         "\n")

\* _build_chapter_characters_1n: (characters_info, careers_info)
BuildChapterCharacters1N(chapter, all_characters, careers) ==
    LET plan == chapter.expansion_plan
        filter_character_names ==
            IF HasText(plan) /\ plan.kind = "object"
            THEN Get(plan.value, "character_focus", <<>>) ELSE <<>>
        IsFocus(c) == \E i \in 1..Len(filter_character_names) :
                          filter_character_names[i] = c.name
        matching == IF filter_character_names # <<>>
                    THEN SelectSeq(all_characters, IsFocus) ELSE all_characters
        characters == SubSeq(matching, 1, IF Len(matching) > 10 THEN 10 ELSE Len(matching))
        career_ids == {characters[i].main_career_id : i \in
                          {j \in 1..Len(characters) :
                              /\ ~characters[j].is_organization
                              /\ Truthy(characters[j].main_career_id)}}
        careers_map == (DOMAIN careers) \cap career_ids
        ordered == CHOOSE ids \in [1..Cardinality(careers_map) -> careers_map] :
                       \A i, j \in 1..Cardinality(careers_map) : i # j => ids[i] # ids[j]
        careers_info_parts == [i \in 1..Cardinality(careers_map) |->
                                  CareerBlock(careers[ordered[i]])]
    IN  IF all_characters = <<>>
        THEN [raised |-> FALSE, characters |-> "no characters yet", careers |-> NONE]
        ELSE IF HasText(plan) /\ plan.kind = "array" THEN Raises
        ELSE IF characters = <<>>
        THEN [raised |-> FALSE, characters |-> "no matching characters", careers |-> NONE]
        ELSE [raised |-> FALSE,
              characters |-> Join([i \in 1..Len(characters) |->
                                      CharacterBlock(characters[i], careers)], "\n\n"),
              careers |-> IF careers_info_parts = <<>> THEN NONE
                          ELSE Join(careers_info_parts, "\n\n")]

\* _build_outline_from_structure (1-1)
BuildOutlineFromStructure(outline, chapter) ==
    LET structure == outline.structure.value
        Part(label, key) ==
            IF Truthy(Get(structure, key, NONE))
            THEN <<"[" \o label \o "]\n" \o structure[key]>> ELSE <<>>
        ListPart(label, key) ==
            IF Get(structure, key, <<>>) # <<>>
            THEN <<"[" \o label \o "]\n"
                     \o Join([i \in 1..Len(structure[key]) |-> "- " \o structure[key][i]], "\n")>>
            ELSE <<>>
    IN  IF ~outline.exists THEN [raised |-> FALSE, text |-> "no outline yet"]
        ELSE IF ~HasText(outline.structure) \/ outline.structure.kind = "invalid"
        THEN [raised |-> FALSE, text |-> outline.content]
        ELSE IF outline.structure.kind = "array" THEN Raises
        ELSE [raised |-> FALSE,
              text |-> Join(Part("Chapter summary", "summary")
                            \o ListPart("Scenes", "scenes")
                            \o ListPart("Key points", "key_points")
                            \o Part("Emotional tone", "emotion")
                            \o Part("Narrative goal", "goal"), "\n\n")]

\* _build_characters_and_careers (1-1): `characters` are the rows the caller
\* found, `refetched` those of them the second query still finds.
BuildCharactersAndCareers(characters, filter_character_names, refetched, careers) ==
    LET IsNamed(c) == \E i \in 1..Len(filter_character_names) :
                          filter_character_names[i] = c.name
        filtered_characters ==
            IF filter_character_names # <<>> /\ SelectSeq(characters, IsNamed) # <<>>
            THEN SelectSeq(characters, IsNamed) ELSE characters
        first == SubSeq(filtered_characters, 1,
                        IF Len(filtered_characters) > 10 THEN 10 ELSE Len(filtered_characters))
        IsFound(c) == c.name \in refetched
        full == SelectSeq(first, IsFound)
    IN  IF characters = <<>> THEN [characters |-> "no characters yet", careers |-> NONE]
        ELSE [characters |-> Join([i \in 1..Len(full) |-> CharacterBlock(full[i], careers)],
                                  "\n\n"),
              careers |-> NONE]

MaxOverdueShown == 3
MaxUpcomingShown == 3

FirstOf(items, n) == SubSeq(items, 1, IF Len(items) > n THEN n ELSE Len(items))

AlsoCurrentChapter(upcoming, chapter_number) == upcoming
\* upcoming_filtered: only the foreshadows due after this chapter
UpcomingFiltered(upcoming, chapter_number) ==
    LET IsLater(f) == f.target_resolve_chapter_number > chapter_number
    IN  SelectSeq(upcoming, IsLater)

ShowsAllOverdue(overdue) == overdue
\* overdue[:3]
OverdueShown(overdue) == FirstOf(overdue, MaxOverdueShown)

\* The sections _get_foreshadow_reminders (1-N) renders of what the three
\* queries of the foreshadow service returned, in the order it appends them.
ReminderSections(must_resolve, overdue, upcoming, chapter_number) ==
    (IF must_resolve # <<>>
     THEN <<[name |-> "must_resolve", shown |-> must_resolve]>> ELSE <<>>)
    \o (IF overdue # <<>>
        THEN <<[name |-> "overdue", shown |-> OverdueShown(overdue)]>> ELSE <<>>)
    \o (IF UpcomingFiltered(upcoming, chapter_number) # <<>>
        THEN <<[name |-> "upcoming",
                shown |-> FirstOf(UpcomingFiltered(upcoming, chapter_number),
                                  MaxUpcomingShown)]>>
        ELSE <<>>)

\* The lines of one foreshadow in a section.
EntryLines(name, f, chapter_number) ==
    CASE name = "must_resolve" ->
            <<"- " \o f.title,
              "  planted in chapter " \o ToString(f.plant_chapter_number),
              "  content: " \o Prefix(f.content, 100)
                  \o (IF Len(f.content) > 100 THEN "..." ELSE "")>>
            \o (IF Truthy(f.resolution_notes)
                THEN <<"  resolution hint: " \o f.resolution_notes>> ELSE <<>>)
            \o <<"">>
      [] name = "overdue" ->
            <<"- " \o f.title \o " [overdue by "
                  \o ToString(chapter_number - f.target_resolve_chapter_number)
                  \o " chapters]",
              "  planted in chapter " \o ToString(f.plant_chapter_number)
                  \o ", planned for chapter " \o ToString(f.target_resolve_chapter_number),
              "  content: " \o Prefix(f.content, 80) \o "...",
              "">>
      [] name = "upcoming" ->
            <<"- " \o f.title \o " (planned for chapter "
                  \o ToString(f.target_resolve_chapter_number) \o ", "
                  \o ToString(f.target_resolve_chapter_number - chapter_number)
                  \o " chapters left)">>

RECURSIVE EntriesLines(_, _, _)
EntriesLines(name, shown, chapter_number) ==
    IF shown = <<>> THEN <<>>
    ELSE EntryLines(name, Head(shown), chapter_number)
         \o EntriesLines(name, Tail(shown), chapter_number)

SectionLines(section, chapter_number) ==
    <<"[" \o section.name \o "]">>
    \o EntriesLines(section.name, section.shown, chapter_number)
    \o (IF section.name = "upcoming" THEN <<"">> ELSE <<>>)

RECURSIVE ReminderLines(_, _)
ReminderLines(sections, chapter_number) ==
    IF sections = <<>> THEN <<>>
    ELSE SectionLines(Head(sections), chapter_number)
         \o ReminderLines(Tail(sections), chapter_number)

NoService == [present |-> FALSE]

\* _get_foreshadow_reminders, the same text in both builders: service.fail_at is
\* the query that raises (0: none);
\* queries are the calls made to the service, in order.
GetForeshadowReminders(service, chapter_number) ==
    LET names == <<"get_must_resolve_foreshadows", "get_overdue_foreshadows",
                   "get_pending_resolve_foreshadows">>
        sections == ReminderSections(service.must_resolve, service.overdue,
                                     service.upcoming, chapter_number)
        lines == ReminderLines(sections, chapter_number)
    IN  IF ~service.present
        THEN [queries |-> <<>>, sections |-> <<>>, text |-> NONE]
        ELSE IF service.fail_at > 0
        THEN [queries |-> SubSeq(names, 1, service.fail_at), sections |-> <<>>,
              text |-> NONE]
        ELSE [queries |-> names, sections |-> sections,
              text |-> IF lines # <<>> THEN Join(lines, "\n") ELSE NONE]

\* The 1-1 rendering of the memories found (build, inline).
RelevantMemories11(has_memory_service, chapter_outline, search) ==
    IF ~has_memory_service \/ ~Truthy(chapter_outline) THEN NONE
    ELSE IF search.raised THEN NONE
    ELSE IF MemoryLines(search.result) = <<>> THEN NONE
    ELSE Join(<<"[Relevant memories]">> \o MemoryLines(search.result), "\n")

\* The latest chapter before this one.
PrevChapter(earlier) == IF earlier = <<>> THEN NoChapter ELSE earlier[Len(earlier)]

\* OneToManyContextBuilder.build on the request and database state `in`
OneToManyContext(in) ==
    LET chapter == in.chapter
        chapter_number == chapter.chapter_number
        outline == BuildChapterOutline1N(chapter, in.outline)
        ending_info == GetLastEndingEnhanced(chapter, PrevChapter(in.earlier),
                                             in.summary_mem, ENDING_LENGTH)
        characters == BuildChapterCharacters1N(chapter, in.all_characters, in.careers)
        tone == ExtractEmotionalTone(chapter, in.outline)
        reminders == IF in.service.present
                     THEN GetForeshadowReminders(in.service, chapter_number)
                     ELSE [queries |-> <<>>, sections |-> <<>>, text |-> NONE]
    IN  IF outline.raised \/ ending_info.raised \/ characters.raised \/ tone.raised
        THEN [mode |-> "one-to-many", raised |-> TRUE, queries |-> <<>>]
        ELSE [mode |-> "one-to-many", raised |-> FALSE,
              chapter_number |-> chapter_number,
              chapter_outline |-> outline.text,
              recent_chapters_context |->
                  IF chapter_number > 1
                  THEN BuildRecentChaptersContext(in.earlier, in.query_fails) ELSE NONE,
              continuation_point |-> ending_info.ending_text,
              previous_chapter_summary |-> ending_info.summary,
              chapter_characters |-> characters.characters,
              chapter_careers |-> characters.careers,
              emotional_tone |-> tone.text,
              relevant_memories |->
                  GetRelevantMemoriesEnhanced(in.has_memory_service, in.search),
              foreshadow_reminders |-> reminders.text,
              sections |-> reminders.sections,
              queries |-> reminders.queries]

\* OneToOneContextBuilder.build on the request and database state `in`
OneToOneContext(in) ==
    LET chapter == in.chapter
        chapter_number == chapter.chapter_number
        outline == BuildOutlineFromStructure(in.outline, chapter)
        prev_chapter == PrevChapter(in.earlier)
        has_previous == /\ chapter_number > 1
                        /\ prev_chapter.exists
                        /\ Truthy(prev_chapter.content)
        content == Strip(prev_chapter.content)
        structure == in.outline.structure
        character_names ==
            IF in.outline.exists /\ HasText(structure) /\ structure.kind = "object"
            THEN Get(structure.value, "characters", <<>>) ELSE <<>>
        IsNamed(c) == \E i \in 1..Len(character_names) : character_names[i] = c.name
        characters == SelectSeq(in.all_characters, IsNamed)
        built == IF character_names # <<>> /\ characters # <<>>
                 THEN BuildCharactersAndCareers(characters, character_names,
                                                in.refetched, in.careers)
                 ELSE [characters |-> "no characters yet", careers |-> NONE]
        reminders == IF in.service.present
                     THEN GetForeshadowReminders(in.service, chapter_number)
                     ELSE [queries |-> <<>>, sections |-> <<>>, text |-> NONE]
    IN  IF outline.raised
        THEN [mode |-> "one-to-one", raised |-> TRUE, queries |-> <<>>]
        ELSE [mode |-> "one-to-one", raised |-> FALSE,
              chapter_number |-> chapter_number,
              chapter_outline |-> outline.text,
              continuation_point |->
                  IF has_previous
                  THEN (IF Len(content) <= 500 THEN content ELSE Suffix(content, 500))
                  ELSE NONE,
              previous_chapter_summary |->
                  IF ~has_previous THEN NONE
                  ELSE IF Truthy(in.summary_mem) THEN Prefix(in.summary_mem, 300)
                  ELSE IF Truthy(prev_chapter.summary) THEN Prefix(prev_chapter.summary, 300)
                  ELSE NONE,
              chapter_characters |-> built.characters,
              chapter_careers |-> built.careers,
              relevant_memories |->
                  RelevantMemories11(in.has_memory_service, outline.text, in.search),
              foreshadow_reminders |-> reminders.text,
              sections |-> reminders.sections,
              queries |-> reminders.queries]

(***************************************************************************)
(* SpecContext: one chapter's context is built, in either mode, from one   *)
(* state of the database and of the two services.  The states vary one     *)
(* part of BaseInput at a time.                                            *)
(***************************************************************************)
RECURSIVE Repeat(_, _)
Repeat(text, n) == IF n = 0 THEN "" ELSE text \o Repeat(text, n - 1)

LongText == Repeat("0123456789", 52)

FullPlan == ObjectJson([plot_summary |-> "the duel", key_events |-> <<"e1", "e2">>, character_focus |-> <<"Ann">>, emotional_tone |-> "tense", narrative_goal |-> "goal", conflict_type |-> "inner"])

Plans == {NoJson, BlankJson, InvalidJson, ArrayJson, ObjectJson([unused |-> "x"]), FullPlan}

Structures == {NoJson, InvalidJson, ArrayJson, ObjectJson([unused |-> "x"]), ObjectJson([summary |-> "what happens", scenes |-> <<"s1">>, emotion |-> "calm", characters |-> <<"Ann", "Guild">>])}

Outlines == {[exists |-> FALSE, content |-> NONE, structure |-> NoJson]} \cup [exists : {TRUE}, content : {"", "the outline"}, structure : Structures]

Earlier(number, content, summary, plan) == [exists |-> TRUE, chapter_number |-> number, title |-> "before", content |-> content, summary |-> summary, expansion_plan |-> plan]

PrevChapters == {Earlier(2, c, s, p) : c \in {NONE, "", "  ", " the end. ", LongText}, s \in {NONE, "prev summary"}, p \in {NoJson, ArrayJson, ObjectJson([unused |-> "x"]), FullPlan}}

Person(name, career) == [name |-> name, is_organization |-> FALSE, role_type |-> "protagonist", age |-> "20", appearance |-> "tall", background |-> NONE, main_career_id |-> career, organization_type |-> NONE]

Organization(name) == [name |-> name, is_organization |-> TRUE, role_type |-> NONE, age |-> NONE, appearance |-> NONE, background |-> "old", main_career_id |-> NONE, organization_type |-> "guild"]

CharacterLists == {<<>>, <<Person("Bob", NONE)>>, <<Person("Ann", "k1")>>, <<Person("Ann", "k1"), Organization("Guild"), Person("Bob", "k2")>>}

CareerMaps == {<<>>, [k \in {"k1"} |-> [name |-> "Smith", type |-> "main", description |-> "forges", special_abilities |-> NONE]]}

Foreshadow(title, plant, target) == [title |-> title, plant_chapter_number |-> plant, target_resolve_chapter_number |-> target, content |-> "a hint", resolution_notes |-> NONE]

MustResolveLists == {<<>>, <<Foreshadow("m1", 1, 5)>>, [i \in 1..4 |-> Foreshadow("m", i, 5)]}

OverdueLists == {<<>>, <<Foreshadow("o1", 1, 3)>>, [i \in 1..4 |-> Foreshadow("o", 1, i)]}

UpcomingLists == {<<>>, <<Foreshadow("m1", 1, 5)>>, <<Foreshadow("m1", 1, 5), Foreshadow("u1", 2, 5 + 1)>>, [i \in 1..5 |-> Foreshadow("u", 2, 5 + ((i + 1) \div 2))]}

Services == {NoService} \cup [present : {TRUE}, must_resolve : MustResolveLists, overdue : OverdueLists, upcoming : UpcomingLists, fail_at : 0..3]

Found(similarity) == [similarity |-> similarity, content |-> "remembered"]

Searches == {[raised |-> TRUE], [raised |-> FALSE, result |-> <<>>], [raised |-> FALSE, result |-> <<Found(6), Found(3)>>], [raised |-> FALSE, result |-> [i \in 1..12 |-> Found(IF i = 2 THEN 5 ELSE 9)]]}

ChapterOf(number, plan, summary) == [chapter_number |-> number, title |-> "now", expansion_plan |-> plan, summary |-> summary]

BaseInput == [chapter |-> ChapterOf(3, NoJson, "chapter summary"), outline |-> [exists |-> TRUE, content |-> "the outline", structure |-> NoJson], earlier |-> <<Earlier(1, "first", NONE, NoJson), Earlier(2, " the end. ", "prev summary", NoJson)>>, query_fails |-> FALSE, summary_mem |-> NONE, all_characters |-> <<>>, careers |-> <<>>, refetched |-> {}, has_memory_service |-> TRUE, search |-> [raised |-> FALSE, result |-> <<>>], service |-> NoService]

OutlineInputs == {[BaseInput EXCEPT !.chapter = ChapterOf(3, p, s), !.outline = o] : p \in Plans, s \in {NONE, "chapter summary"}, o \in Outlines}

EndingInputs == {[BaseInput EXCEPT !.chapter = ChapterOf(n, NoJson, NONE), !.earlier = e, !.summary_mem = m, !.query_fails = q] : n \in {1, 3}, e \in {<<>>} \cup {<<prev>> : prev \in PrevChapters}, m \in {NONE, "memory of the chapter"}, q \in BOOLEAN}

CharacterInputs == {[BaseInput EXCEPT !.chapter = ChapterOf(3, p, NONE), !.outline = o, !.all_characters = cs, !.careers = ks, !.refetched = IF all THEN {"Ann", "Bob", "Guild"} ELSE {}] : p \in {NoJson, FullPlan}, o \in {oo \in Outlines : oo.exists /\ oo.content # "" /\ oo.structure.kind \in {"none", "object"}}, cs \in CharacterLists, ks \in CareerMaps, all \in BOOLEAN}

MemoryInputs == {[BaseInput EXCEPT !.has_memory_service = h, !.search = s, !.outline = o] : h \in BOOLEAN, s \in Searches, o \in {oo \in Outlines : oo.structure.kind = "none"}}

ForeshadowInputs == {[BaseInput EXCEPT !.chapter = ChapterOf(5, NoJson, NONE), !.service = s] : s \in Services}

ContextInputs == OutlineInputs \cup EndingInputs \cup CharacterInputs \cup MemoryInputs \cup ForeshadowInputs

BuildOneToMany ==
    /\ last.op = "pending"
    /\ last' = [op |-> "build"] @@ OneToManyContext(nm)
    /\ log' = last'.queries
    /\ UNCHANGED <<app_settings, embedding_model, chroma, budget, emb, nm>>

BuildOneToOne ==
    /\ last.op = "pending"
    /\ last' = [op |-> "build"] @@ OneToOneContext(nm)
    /\ log' = last'.queries
    /\ UNCHANGED <<app_settings, embedding_model, chroma, budget, emb, nm>>

InitContext ==
    /\ app_settings = AppDefaults(NONE, NONE, NONE, NONE, NONE)
    /\ embedding_model = NONE
    /\ chroma = <<>>
    /\ last = [op |-> "pending"]
    /\ budget = 0
    /\ log = <<>>
    /\ emb = NoCall
    /\ nm \in ContextInputs

NextContext == BuildOneToMany \/ BuildOneToOne

SpecContext == InitContext /\ [][NextContext]_vars

(***************************************************************************)
(* update_memory.  `content` is NONE when the caller gives none; `metadata` *)
(* is [given |-> FALSE] or [given |-> TRUE, values |-> dict].  `store_fail` *)
(* is the store call that raises ("none", "get_or_create", "update").      *)
(***************************************************************************)
NoMetadata == [given |-> FALSE]
MetadataOf(values) == [given |-> TRUE, values |-> values]

\* `if metadata:` is false for None and for {}
HasMetadata(metadata) == metadata.given /\ DOMAIN metadata.values # {}

\* isinstance(value, (list, dict)): the keys whose values are lists
CompositeKeys == {"tags", "related_characters"}

UpdateChromaMetadata(metadata) ==
    [key \in DOMAIN metadata.values |->
        IF key \in CompositeKeys THEN JsonDumps(metadata.values[key])
        ELSE metadata.values[key]]

AlwaysReembeds(content) == TRUE
\* `if content:`
Reembeds(content) == Truthy(content)

\* collection.update(ids=[memory_id], ...): the fields given replace those of the
\* record, metadata key by key; an id the collection does not hold is skipped.
CollectionUpdate(records, memory_id, update_data) ==
    IF memory_id \notin DOMAIN records THEN records
    ELSE LET old == records[memory_id]
             merged == IF "metadatas" \in DOMAIN update_data
                       THEN [k \in (DOMAIN old.metadata) \cup (DOMAIN update_data.metadatas) |->
                                IF k \in DOMAIN update_data.metadatas
                                THEN update_data.metadatas[k] ELSE old.metadata[k]]
                       ELSE old.metadata
         IN  [records EXCEPT ![memory_id] =
                 [old EXCEPT !.document = Get(update_data, "documents", old.document),
                             !.embedding = Get(update_data, "embeddings", old.embedding),
                             !.metadata = merged]]

UpdateOutcome(store, model, defaults, user_id, project_id, memory_id, content, metadata, resolved_config, http, load_ok, store_fail) ==
    LET name == BuildCollectionName(user_id, project_id, resolved_config)
        created == GetCollection(store, user_id, project_id, resolved_config)
        out == EmbedTexts(<<content>>, resolved_config, http, model, defaults, load_ok)
        model_after == IF Reembeds(content)
                       THEN ModelAfterEmbed(model, defaults, resolved_config, load_ok)
                       ELSE model
        embedded == IF Reembeds(content)
                    THEN [embeddings |-> out.vectors[1], documents |-> content] ELSE <<>>
        update_data == IF HasMetadata(metadata)
                       THEN embedded @@ [metadatas |-> UpdateChromaMetadata(metadata)]
                       ELSE embedded
    IN  IF store_fail = "get_or_create" THEN Outcome(store, model, FALSE, "not_called")
        ELSE IF Reembeds(content) /\ out.status # "ok"
        THEN Outcome(created, model_after, FALSE, out.status)
        ELSE IF DOMAIN update_data = {}
        THEN Outcome(created, model_after, FALSE, "not_called")
        ELSE IF store_fail = "update"
        THEN Outcome(created, model_after, FALSE, IF Reembeds(content) THEN "ok" ELSE "not_called")
        ELSE Outcome([created EXCEPT ![name].records =
                          CollectionUpdate(created[name].records, memory_id, update_data)],
                     model_after, TRUE, IF Reembeds(content) THEN "ok" ELSE "not_called")

(***************************************************************************)
(* SpecWrites: add_memory, batch_add_memories and update_memory of one     *)
(* project on one persistent store, while the settings row and per-call    *)
(* override change between calls and the process restarts under other      *)
(* defaults, its start load ending on the configured or the fallback model.*)
(***************************************************************************)
MaxWrites == 3

WriteTenant == <<"user-1", "project-1">>

WriteDefaults ==
    {AppDefaults(NONE, NONE, NONE, NONE, NONE),
     AppDefaults(NONE, NONE, ConfiguredLocalModel, NONE, NONE)}

WriteCalls ==
    {Call(NoRow, NoOverride), Call(RowApiA, NoOverride), Call(RowApiA, OverrideModelB)}

WriteConfigs ==
    [defaults \in WriteDefaults |->
        [call \in WriteCalls |->
            ResolveEmbeddingConfig(defaults, call.stored, call.override)] @@ <<>>] @@ <<>>

\* The model a restarted process holds after __init__.
StartedModels(defaults) ==
    IF StartsInApiMode(defaults) THEN {NONE} ELSE {LocalModelName(defaults), FallbackModel}

WriteEnvs(resolved_config) == {Env("in_order", TRUE, "none")}

EmbedEnvs(resolved_config) ==
    {Env("in_order", TRUE, "none")}
    \cup (IF ReachesRemote(resolved_config) THEN {Env("http_error", TRUE, "none")} ELSE {})

WriteAnswer(resolved_config, env, texts) ==
    IF ReachesRemote(resolved_config)
    THEN RemoteAnswer(env.remote, texts, resolved_config.embedding_model)
    ELSE NoHttp

\* The length of the vectors of a model: 512 for the configured local model, 384
\* for the primary and the fallback model (the api models are taken equal).
Dimension(model) == IF model = ConfiguredLocalModel THEN 512 ELSE 384

\* The store refuses a vector whose length is not that of its collection.
DimensionClash(store) ==
    \E name \in DOMAIN store :
        \E id1, id2 \in DOMAIN store[name].records :
            Dimension(store[name].records[id1].embedding.model)
                # Dimension(store[name].records[id2].embedding.model)

\* add_memory (single) or batch_add_memories of `mems` on the current store.
WriteIngest(mems, single, resolved_config, env) ==
    LET Try(store_fail) ==
            IngestOutcome(chroma, embedding_model, app_settings,
                WriteTenant[1], WriteTenant[2], mems, single, resolved_config,
                WriteAnswer(resolved_config, env, Contents(mems)), env.load_ok, store_fail)
    IN  IF DimensionClash(Try(env.store_fail).store) THEN Try("add")
        ELSE Try(env.store_fail)

\* update_memory on the current store.
WriteUpdateOutcome(memory_id, content, metadata, resolved_config, env) ==
    LET Try(store_fail) ==
            UpdateOutcome(chroma, embedding_model, app_settings,
                WriteTenant[1], WriteTenant[2], memory_id, content, metadata,
                resolved_config, WriteAnswer(resolved_config, env, <<content>>),
                env.load_ok, store_fail)
    IN  IF DimensionClash(Try(env.store_fail).store) THEN Try("update")
        ELSE Try(env.store_fail)

\* add_memory; `batched` is the store batch_add_memories would leave of the same
\* memory as a batch of one, from the same state and answers.
WriteAdd ==
    \E key \in {"M1", "M3"}, call \in WriteCalls :
        \E env \in WriteEnvs(WriteConfigs[app_settings][call]) :
            LET resolved_config == WriteConfigs[app_settings][call]
                mems == <<Catalog[key]>>
                outcome == WriteIngest(mems, TRUE, resolved_config, env)
                twin == WriteIngest(mems, FALSE, resolved_config, env)
            IN  /\ Served
                /\ WithinBounds(outcome.store)
                /\ chroma' = outcome.store
                /\ embedding_model' = outcome.model
                /\ last' = [op |-> "add_memory", key |-> key,
                            name |-> BuildCollectionName(WriteTenant[1], WriteTenant[2],
                                                         resolved_config),
                            result |-> AddMemoryResult(outcome),
                            batched |-> twin.store,
                            batched_result |-> BatchAddResult(mems, twin)]
                /\ UNCHANGED <<app_settings, log, emb, nm>>

WriteBatch ==
    \E batch \in {<<"M2">>, <<"M2", "M3">>}, call \in WriteCalls :
        \E env \in WriteEnvs(WriteConfigs[app_settings][call]) :
            LET resolved_config == WriteConfigs[app_settings][call]
                mems == Memories(batch)
                outcome == WriteIngest(mems, FALSE, resolved_config, env)
            IN  /\ Served
                /\ WithinBounds(outcome.store)
                /\ chroma' = outcome.store
                /\ embedding_model' = outcome.model
                /\ last' = [op |-> "batch_add_memories", batch |-> batch,
                            name |-> BuildCollectionName(WriteTenant[1], WriteTenant[2],
                                                         resolved_config),
                            result |-> BatchAddResult(mems, outcome)]
                /\ UNCHANGED <<app_settings, log, emb, nm>>

UpdateContents == {NONE, "", "c"}

UpdateMetadatas ==
    {NoMetadata, MetadataOf(<<>>), MetadataOf([title |-> "Renamed", tags |-> <<"x", "y">>])}

\* The updates made: of a stored id with each kind of content and metadata, and
\* of an id no collection holds.
UpdateInputs ==
    {u \in [memory_id : {"m1"}, content : UpdateContents, metadata : UpdateMetadatas] :
        u.metadata = MetadataOf(<<>>) => u.content = NONE}
    \cup {[memory_id |-> "m9", content |-> "c", metadata |-> NoMetadata],
          [memory_id |-> "m9", content |-> NONE, metadata |-> MetadataOf([title |-> "Renamed"])]}

\* What can happen around one update: the answers matter when it embeds.
UpdateEnvs(resolved_config, content) ==
    {Env("in_order", TRUE, "none")}
    \cup (IF Reembeds(content)
          THEN EmbedEnvs(resolved_config) \cup {Env("in_order", TRUE, "update")}
          ELSE {})

WriteUpdate ==
    \E update \in UpdateInputs, call \in WriteCalls :
        \E env \in UpdateEnvs(WriteConfigs[app_settings][call], update.content) :
            LET resolved_config == WriteConfigs[app_settings][call]
                memory_id == update.memory_id
                content == update.content
                metadata == update.metadata
                outcome == WriteUpdateOutcome(memory_id, content, metadata, resolved_config, env)
            IN  /\ Served
                /\ WithinBounds(outcome.store)
                /\ chroma' = outcome.store
                /\ embedding_model' = outcome.model
                /\ last' = [op |-> "update_memory", memory_id |-> memory_id,
                            content |-> content, metadata |-> metadata,
                            name |-> BuildCollectionName(WriteTenant[1], WriteTenant[2],
                                                         resolved_config),
                            before |-> chroma, result |-> outcome.ok,
                            embed |-> outcome.embed]
                /\ UNCHANGED <<app_settings, log, emb, nm>>

\* The process restarts (one of the steps of the behaviour): the store stays,
\* the defaults and the loaded model are those of the new process.
Restart ==
    \E defaults \in WriteDefaults :
        \E model \in StartedModels(defaults) :
            /\ <<defaults, model>> # <<app_settings, embedding_model>>
            /\ Served
            /\ app_settings' = defaults
            /\ embedding_model' = model
            /\ last' = [op |-> "restart"]
            /\ UNCHANGED <<chroma, log, emb, nm>>

InitWrites ==
    /\ app_settings \in WriteDefaults
    /\ embedding_model \in StartedModels(app_settings)
    /\ chroma = <<>>
    /\ last = NoCall
    /\ budget = MaxWrites
    /\ log = <<>>
    /\ emb = NoCall
    /\ nm = NoCall

NextWrites == WriteAdd \/ WriteBatch \/ WriteUpdate \/ Restart

SpecWrites == InitWrites /\ [][NextWrites]_vars

(***************************************************************************)
(* split_book_content (book_analysis_service).  A book is the sequence of  *)
(* its characters; "di" stands for the ordinal prefix of a Chinese heading,*)
(* "zhang", "hui", "jie", "juan", "pian" for the five unit characters and  *)
(* "xu" "zhang" for the prologue word.                                     *)
(***************************************************************************)
HeadingUnits == {"zhang", "hui", "jie", "juan", "pian"}
HeadingNumerals == (DOMAIN DecimalDigits) \cup (DOMAIN CN_DIGITS) \cup (DOMAIN CN_UNITS)
ChapterWords == {<<"C", "h", "a", "p", "t", "e", "r">>, <<"C", "H", "A", "P", "T", "E", "R">>}
SpecialHeadings == {<<"xu", "zhang">>}

\* normalize_text
RECURSIVE UnifyNewlines(_)
UnifyNewlines(content) ==
    IF content = <<>> THEN <<>>
    ELSE IF Head(content) = "\r" /\ Len(content) > 1 /\ content[2] = "\n"
    THEN <<"\n">> \o UnifyNewlines(SubSeq(content, 3, Len(content)))
    ELSE IF Head(content) = "\r" THEN <<"\n">> \o UnifyNewlines(Tail(content))
    ELSE <<Head(content)>> \o UnifyNewlines(Tail(content))

NormalizeText(content) == StripChars(UnifyNewlines(content))

\* The first position from i on that holds no whitespace (Len + 1 when none does).
RECURSIVE SkipSpaces(_, _)
SkipSpaces(text, i) ==
    IF i <= Len(text) /\ IsSpace(text[i]) THEN SkipSpaces(text, i + 1) ELSE i

\* The last position of the longest run of characters of `class` from i on
\* (i - 1 when text[i] is not of the class).
RECURSIVE RunEnd(_, _, _)
RunEnd(text, i, class) ==
    IF i <= Len(text) /\ text[i] \in class THEN RunEnd(text, i + 1, class) ELSE i - 1

StartsAt(text, i, word) ==
    i + Len(word) - 1 <= Len(text) /\ SubSeq(text, i, i + Len(word) - 1) = word

\* Where the alternation of CHAPTER_HEADING_PATTERN ends when it matches at i
\* (0 when it does not).
HeadingCoreEnd(text, i) ==
    LET numerals == RunEnd(text, SkipSpaces(text, i + 1), HeadingNumerals)
        unit == SkipSpaces(text, numerals + 1)
        digits(word) == RunEnd(text, SkipSpaces(text, i + Len(word)), DOMAIN DecimalDigits)
    IN  IF i > Len(text) THEN 0
        ELSE IF /\ text[i] = "di"
                /\ numerals >= SkipSpaces(text, i + 1)
                /\ unit <= Len(text)
                /\ text[unit] \in HeadingUnits
        THEN unit
        ELSE IF \E word \in ChapterWords :
                    /\ StartsAt(text, i, word)
                    /\ digits(word) >= SkipSpaces(text, i + Len(word))
        THEN LET word == CHOOSE w \in ChapterWords : StartsAt(text, i, w)
             IN  digits(word)
        ELSE IF \E word \in SpecialHeadings : StartsAt(text, i, word)
        THEN i + 1
        ELSE 0

\* [^\n]*$ : the end of the line position i lies on
RECURSIVE LineEnd(_, _)
LineEnd(text, i) ==
    IF i < Len(text) /\ text[i + 1] # "\n" THEN LineEnd(text, i + 1) ELSE i

IsLineStart(text, p) == p = 1 \/ text[p - 1] = "\n"

\* The match of the pattern that starts at the line start p: ^\s* runs over
\* whitespace, line ends included, up to the heading.
MatchesAt(text, p) ==
    IsLineStart(text, p) /\ HeadingCoreEnd(text, SkipSpaces(text, p)) > 0

MatchEnd(text, p) == LineEnd(text, HeadingCoreEnd(text, SkipSpaces(text, p)))

\* re.split(CHAPTER_HEADING_PATTERN, text): the text before the first match, then
\* each match followed by the text up to the next one.
RECURSIVE ReSplit(_, _)
ReSplit(text, from) ==
    IF \A p \in from..Len(text) : ~MatchesAt(text, p)
    THEN <<SubSeq(text, from, Len(text))>>
    ELSE LET p == CHOOSE q \in from..Len(text) :
                      MatchesAt(text, q) /\ \A r \in from..(q - 1) : ~MatchesAt(text, r)
         IN  <<SubSeq(text, from, p - 1), SubSeq(text, p, MatchEnd(text, p))>>
             \o ReSplit(text, MatchEnd(text, p) + 1)

\* _build_preview
BuildPreview(content) ==
    LET one_line == Cleaned(content)
    IN  IF Len(one_line) <= 140 THEN one_line
        ELSE SubSeq(one_line, 1, 140) \o <<".", ".", ".">>

CandidateNumber(chapters, candidate) == candidate
\* index = len(chapters) + 1
NextIndex(chapters, candidate) == Len(chapters) + 1

\* The loop over the headings found: candidate k is parts[2k], parts[2k + 1].
RECURSIVE HeadingChapters(_, _, _, _)
HeadingChapters(parts, k, chapters, min_chapter_length) ==
    IF 2 * k > Len(parts) THEN chapters
    ELSE LET title == StripChars(parts[2 * k])
             chapter_content == StripChars(IF 2 * k + 1 <= Len(parts)
                                           THEN parts[2 * k + 1] ELSE <<>>)
             index == NextIndex(chapters, k)
         IN  IF title = <<>> \/ Len(chapter_content) < min_chapter_length
             THEN HeadingChapters(parts, k + 1, chapters, min_chapter_length)
             ELSE HeadingChapters(parts, k + 1,
                      Append(chapters,
                             [index |-> index,
                              chapter_number |-> ExtractChapterNumber(title, index),
                              title |-> title,
                              content |-> chapter_content,
                              word_count |-> Len(chapter_content),
                              preview |-> BuildPreview(chapter_content),
                              candidate |-> k]),
                      min_chapter_length)

\* The first position of the whitespace run that ends at i.
RECURSIVE SpacesStart(_, _)
SpacesStart(text, i) ==
    IF i > 1 /\ IsSpace(text[i - 1]) THEN SpacesStart(text, i - 1) ELSE i

\* A position of a whitespace run that holds two line ends: re.split(r"\n\s*\n")
\* cuts inside such runs only, and the pieces are stripped afterwards.
InBreak(text, i) ==
    /\ IsSpace(text[i])
    /\ \E a, b \in SpacesStart(text, i)..(SkipSpaces(text, i) - 1) :
           a < b /\ text[a] = "\n" /\ text[b] = "\n"

\* The last position from i on before the next break.
RECURSIVE PieceEnd(_, _)
PieceEnd(text, i) ==
    IF i < Len(text) /\ ~InBreak(text, i + 1) THEN PieceEnd(text, i + 1) ELSE i

\* paragraphs: the stripped, non-empty pieces between the breaks
RECURSIVE Paragraphs(_, _)
Paragraphs(text, from) ==
    IF from > Len(text) THEN <<>>
    ELSE IF InBreak(text, from) THEN Paragraphs(text, from + 1)
    ELSE LET to == PieceEnd(text, from)
             piece == StripChars(SubSeq(text, from, to))
         IN  (IF piece # <<>> THEN <<piece>> ELSE <<>>) \o Paragraphs(text, to + 1)

RECURSIVE JoinChars(_, _)
JoinChars(items, sep) ==
    IF items = <<>> THEN <<>>
    ELSE IF Len(items) = 1 THEN items[1]
    ELSE items[1] \o sep \o JoinChars(Tail(items), sep)

\* The loop over the groups of fallback_paragraph_group_size paragraphs, from
\* paragraph i on (counted from 0).
RECURSIVE FallbackChapters(_, _, _, _, _)
FallbackChapters(paragraphs, i, fallback_chapters, min_chapter_length, group_size) ==
    IF i >= Len(paragraphs) THEN fallback_chapters
    ELSE LET group == SubSeq(paragraphs, i + 1,
                             IF i + group_size > Len(paragraphs) THEN Len(paragraphs)
                             ELSE i + group_size)
             grouped_text == StripChars(JoinChars(group, <<"\n", "\n">>))
             index == Len(fallback_chapters) + 1
         IN  IF Len(grouped_text) < min_chapter_length
             THEN FallbackChapters(paragraphs, i + group_size, fallback_chapters,
                                   min_chapter_length, group_size)
             ELSE FallbackChapters(paragraphs, i + group_size,
                      Append(fallback_chapters,
                             [index |-> index,
                              chapter_number |-> index,
                              title |-> <<"paragraph group", index>>,
                              content |-> grouped_text,
                              word_count |-> Len(grouped_text),
                              preview |-> BuildPreview(grouped_text),
                              candidate |-> (i \div group_size) + 1]),
                      min_chapter_length, group_size)

\* split_book_content: (chapters, detected_by_heading), with the chapters heading
\* detection kept and whether the paragraph fallback ran.
SplitBookContent(content, min_chapter_length, fallback_paragraph_group_size) ==
    LET text == NormalizeText(content)
        parts == ReSplit(text, 1)
        chapters == IF Len(parts) > 1
                    THEN HeadingChapters(parts, 1, <<>>, min_chapter_length) ELSE <<>>
        paragraphs == Paragraphs(text, 1)
    IN  IF text = <<>>
        THEN [chapters |-> <<>>, detected_by_heading |-> FALSE,
              by_heading |-> <<>>, fallback_ran |-> FALSE, candidates |-> 0]
        ELSE IF chapters # <<>>
        THEN [chapters |-> chapters, detected_by_heading |-> Len(chapters) > 0,
              by_heading |-> chapters, fallback_ran |-> FALSE,
              candidates |-> Len(parts) \div 2]
        ELSE [chapters |-> IF paragraphs = <<>> THEN <<>>
                           ELSE FallbackChapters(paragraphs, 0, <<>>, min_chapter_length,
                                                 fallback_paragraph_group_size),
              detected_by_heading |-> FALSE,
              by_heading |-> chapters, fallback_ran |-> paragraphs # <<>>,
              candidates |-> Len(parts) \div 2]

(***************************************************************************)
(* SpecBook: the function applied to one book.  A book is up to MaxPieces  *)
(* pieces, each on lines of its own: a heading of one of the three kinds   *)
(* over a body longer than, as long as or shorter than the minimum, a      *)
(* heading alone, a body alone, an empty line.                             *)
(***************************************************************************)
MaxPieces == 3

BookPieces ==
    {<<"di", "yi", "zhang", " ", "A", "\n", "x", "x", " ", "d", "i", "x">>,
     <<" ", "di", " ", "san", "shi", "hui", "\r", "\n", "x", "x">>,
     <<"C", "h", "a", "p", "t", "e", "r", " ", "7", "\n", "x", "x", "x">>,
     <<"xu", "zhang">>,
     <<"x", "x", "\r">>,
     <<"x", "x", " ", "d", "i", "x">>,
     <<>>}

Books == UNION {[1..n -> BookPieces] : n \in 0..MaxPieces}

BookText(book) == JoinChars(book, <<"\n">>)

SplitBook ==
    /\ last.op = "pending"
    /\ LET content == BookText(last.book)
           out == SplitBookContent(content, last.min_chapter_length,
                                   last.fallback_paragraph_group_size)
       IN  last' = [op |-> "split_book_content", content |-> content,
                    min_chapter_length |-> last.min_chapter_length,
                    chapters |-> out.chapters,
                    detected_by_heading |-> out.detected_by_heading,
                    by_heading |-> out.by_heading,
                    fallback_ran |-> out.fallback_ran,
                    candidates |-> out.candidates]
    /\ UNCHANGED <<app_settings, embedding_model, chroma, budget, log, emb, nm>>

InitBook ==
    /\ app_settings = AppDefaults(NONE, NONE, NONE, NONE, NONE)
    /\ embedding_model = NONE
    /\ chroma = <<>>
    /\ last \in [op : {"pending"}, book : Books, min_chapter_length : {0, 3}, fallback_paragraph_group_size : {1, 2}]
    /\ budget = 0
    /\ log = <<>>
    /\ emb = NoCall
    /\ nm = NoCall

NextBook == SplitBook

SpecBook == InitBook /\ [][NextBook]_vars

(***************************************************************************)
(* Properties of the calls of Spec.  A step's call is read from last'.     *)
(***************************************************************************)
\* Every configuration a call of the model can resolve to.
AllConfigs ==
    {ResolvedConfigs[defaults][call] :
        defaults \in DefaultsChoices,
        call \in [stored : StoredChoices, override : OverrideChoices]}

\* `name` is a collection name of (user_id, project_id) under some configuration.
Belongs(name, user_id, project_id) ==
    \E embedding_config \in AllConfigs :
        name = BuildCollectionName(user_id, project_id, embedding_config)

\* Every record of the store, with the collection that holds it.
RecordsOf(store) ==
    UNION {{<<name, id, store[name].records[id]>> : id \in DOMAIN store[name].records} :
              name \in DOMAIN store}

IsIngest(call) == call.op \in {"add_memory", "batch_add_memories"}

ReturnedFailure(call) ==
    IF call.op = "add_memory" THEN call.result = FALSE ELSE call.result = 0

\* C2: whenever the endpoint's answer carries a number of usable embeddings that
\* differs from the number of texts sent, the embedding call raises (count
\* mismatch, or format error for an empty data list), the add_memory or
\* batch_add_memories call that made it returns its failure value and no record
\* of the store is added or changed.
C2_CountMismatchStoresNothing ==
    [][(IsIngest(last') /\ last'.usable # NoInt /\ last'.usable # last'.n)
          => /\ last'.embed \in {"count_mismatch", "format_error"}
             /\ ReturnedFailure(last')
             /\ RecordsOf(chroma') = RecordsOf(chroma)]_vars

\* A batch of two texts was answered with fewer usable embeddings while the store
\* already held a record.
C2_Witness ==
    /\ last.op = "batch_add_memories"
    /\ last.n = 2
    /\ last.usable = 1
    /\ last.embed = "count_mismatch"
    /\ RecordsOf(chroma) # {}

\* C3: a delete_project_memories(user, project) call that returns True leaves no
\* collection named for (user, project) under any configuration, and leaves every
\* other collection as it was.
C3_ProjectDeleteRemovesFamily ==
    [][(last'.op = "delete_project_memories" /\ last'.result = TRUE)
          => /\ \A name \in DOMAIN chroma' :
                    ~Belongs(name, last'.user_id, last'.project_id)
             /\ \A name \in DOMAIN chroma :
                    ~Belongs(name, last'.user_id, last'.project_id)
                        => name \in DOMAIN chroma' /\ chroma'[name] = chroma[name]]_vars

\* C4: a delete_chapter_memories(user, project, chapter_id) call that returns True
\* leaves no record of that chapter in any collection named for (user, project),
\* leaves every record of another chapter as it was, and leaves every collection
\* of another project as it was.
C4_ChapterDeleteRemovesExactlyChapter ==
    [][(last'.op = "delete_chapter_memories" /\ last'.result = TRUE)
          => /\ \A name \in DOMAIN chroma' :
                    Belongs(name, last'.user_id, last'.project_id)
                        => \A id \in DOMAIN chroma'[name].records :
                               chroma'[name].records[id].metadata.chapter_id
                                   # last'.chapter_id
             /\ \A name \in DOMAIN chroma :
                    /\ name \in DOMAIN chroma'
                    /\ \A id \in DOMAIN chroma[name].records :
                           chroma[name].records[id].metadata.chapter_id # last'.chapter_id
                               => /\ id \in DOMAIN chroma'[name].records
                                  /\ chroma'[name].records[id] = chroma[name].records[id]
                    /\ ~Belongs(name, last'.user_id, last'.project_id)
                           => chroma'[name] = chroma[name]]_vars

\* The record `id` of collection `name` is the memory `mem` as batch_add_memories
\* stores it.
Written(store, name, mem) ==
    /\ name \in DOMAIN store
    /\ mem.id \in DOMAIN store[name].records
    /\ store[name].records[mem.id].document = mem.content
    /\ store[name].records[mem.id].metadata.memory_type = mem.type
    /\ store[name].records[mem.id].metadata.chapter_id = mem.metadata.chapter_id

\* C8: a batch_add_memories call either returns 0 and writes no record, or returns
\* the length of its batch and every memory of the batch is then a record of the
\* active collection.
C8_BatchAllOrNothing ==
    [][last'.op = "batch_add_memories"
          => IF last'.result = 0
             THEN RecordsOf(chroma') = RecordsOf(chroma)
             ELSE /\ last'.result = Len(last'.batch)
                  /\ \A i \in 1..Len(last'.batch) :
                         Written(chroma', last'.name, Catalog[last'.batch[i]])]_vars


\* C11 as stated: when the embedding call of an add_memory or batch_add_memories
\* call fails with a configuration error or a count mismatch, the call does not
\* return its failure value (False, 0): the failure reaches the caller as an error.
C11_EmbeddingFailurePropagates ==
    [][(IsIngest(last') /\ last'.embed \in {"config_error", "count_mismatch"})
          => ~ReturnedFailure(last')]_vars

IsDelete(call) == call.op \in {"delete_project_memories", "delete_chapter_memories"}

\* C12 as stated: a delete_project_memories or delete_chapter_memories call during
\* which a store call failed, the enumeration of the collections included, does
\* not return True; and get_memory_stats, when a store call fails, returns its
\* error signal.
C12_StoreFailureIsSignalled ==
    [][/\ (IsDelete(last') /\ last'.result = TRUE) => last'.store_fail = "none"
       /\ (last'.op = "get_memory_stats" /\ "total_count" \notin DOMAIN last'.result)
              => last'.result = StatsError]_vars


(***************************************************************************)
(* Properties of SpecStats, read from the log.                             *)
(***************************************************************************)

\* Every successful call of the log was made for the project of `call`, and every
\* one that names a collection named the collection of `call`.
OneProjectOneConfiguration(calls, call) ==
    \A k \in 1..Len(calls) :
        /\ (BatchAdded(calls[k]) \/ ChapterDeleted(calls[k]) \/ StatsReported(calls[k]))
              => calls[k].user_id = call.user_id /\ calls[k].project_id = call.project_id
        /\ (BatchAdded(calls[k]) \/ StatsReported(calls[k]))
              => calls[k].name = call.name

\* The ids whose latest ingestion by a successful batch_add_memories of the log was
\* not followed by a successful delete_chapter_memories of the chapter ingested.
LiveIds(calls) ==
    {id \in {Catalog[key].id : key \in MemoryKeys} :
        \E k \in 1..Len(calls) :
            /\ BatchAdded(calls[k])
            /\ \E i \in 1..Len(calls[k].batch) :
                  /\ Catalog[calls[k].batch[i]].id = id
                  /\ \A j \in (k + 1)..Len(calls) :
                        /\ ~(/\ BatchAdded(calls[j])
                             /\ \E h \in 1..Len(calls[j].batch) :
                                    Catalog[calls[j].batch[h]].id = id)
                        /\ ~(/\ ChapterDeleted(calls[j])
                             /\ calls[j].chapter_id
                                    = Catalog[calls[k].batch[i]].metadata.chapter_id)}

\* C5: after successful batch_add_memories and delete_chapter_memories calls on
\* one project under one configuration, get_memory_stats reports total_count equal
\* to the number of distinct ingested ids whose chapter was not deleted since.
C5_StatsCountsLiveRecords ==
    (StatsReported(last) /\ OneProjectOneConfiguration(log, last))
        => last.result.total_count = Cardinality(LiveIds(log))


(***************************************************************************)
(* Properties of SpecSearch.                                               *)
(***************************************************************************)
Searched == last.op = "search_memories"

\* C7: two distinct (user, project) pairs never map to one collection name,
\* _list_project_collection_names of a pair never returns a collection created
\* for another pair, and a search never returns a record added under another
\* (user, project) than the one searched for.
C7_PartitioningCollisionFree ==
    Searched =>
        /\ \A a, b \in Users \X Projects :
               \A config_a, config_b \in AllConfigs :
                   a # b => BuildCollectionName(a[1], a[2], config_a)
                                # BuildCollectionName(b[1], b[2], config_b)
        /\ \A tenant \in Tenants :
               \A name \in ListProjectCollectionNames(DOMAIN chroma, tenant[1], tenant[2]) :
                   /\ chroma[name].metadata.user_id = tenant[1]
                   /\ chroma[name].metadata.project_id = tenant[2]
        /\ \A i \in 1..Len(last.result) :
               chroma[last.name].records[last.result[i].id].added_by
                   = <<last.user_id, last.project_id>>

\* Which of the three filter parameters a search supplied.
TypesSupplied(call) == call.memory_types # NoList /\ call.memory_types # <<>>
ImportanceSupplied(call) == call.min_importance > 0
RangeSupplied(call) == call.chapter_range # NoRange

Count(flag) == IF flag THEN 1 ELSE 0

ShapeFor(n) == IF n = 0 THEN "none" ELSE IF n = 1 THEN "bare" ELSE "and"

\* C9 as stated: the filter handed to the store is None when none of type filter,
\* importance floor and chapter range is supplied, the bare predicate when exactly
\* one is, and a conjunction when two or three are.
C9_ShapeBySuppliedParameters ==
    (Searched /\ last.queried)
        => last.where.kind = ShapeFor(Count(TypesSupplied(last))
                                      + Count(ImportanceSupplied(last))
                                      + Count(RangeSupplied(last)))

\* C9, amended: the shape follows the number of conditions built, a type filter
\* and an importance floor building one condition each and a chapter range two
\* (its lower and its upper bound): none gives None, one gives the bare condition,
\* two or more give the conjunction of all of them, bounds of the range included.
C9_ShapeByConditions ==
    (Searched /\ last.queried)
        => LET n == Count(TypesSupplied(last)) + Count(ImportanceSupplied(last))
                    + 2 * Count(RangeSupplied(last))
           IN  /\ last.where.kind = ShapeFor(n)
               /\ n = 1 =>
                      IF TypesSupplied(last)
                      THEN last.where.condition
                               = Condition("memory_type", "$in", last.memory_types, 0)
                      ELSE last.where.condition
                               = Condition("importance", "$gte", <<>>, last.min_importance)
               /\ n > 1 =>
                      /\ Len(last.where.conditions) = n
                      /\ RangeSupplied(last) =>
                             /\ last.where.conditions[n - 1]
                                    = Condition("chapter_number", "$gte", <<>>,
                                                last.chapter_range[1])
                             /\ last.where.conditions[n]
                                    = Condition("chapter_number", "$lte", <<>>,
                                                last.chapter_range[2])

\* A search with a chapter range and nothing else queried the store with a
\* conjunction, and one with an importance floor alone with a bare condition.
C9_Witness ==
    /\ Searched
    /\ last.queried
    /\ ~TypesSupplied(last)
    /\ ~ImportanceSupplied(last)
    /\ RangeSupplied(last)
    /\ last.where.kind = "and"
    /\ Len(last.result) > 0

\* The record a result was formatted from.
Hit(i) == chroma[last.name].records[last.result[i].id]

\* C10: the results of a search are in non-increasing similarity, each similarity
\* being 1 minus the distance of the record to the query; there are at most
\* `limit` of them, and each satisfies every filter supplied.
C10_SearchOrderedBoundedFiltered ==
    Searched =>
        /\ \A i, j \in 1..Len(last.result) :
               i < j => last.result[i].similarity >= last.result[j].similarity
        /\ \A i \in 1..Len(last.result) :
               /\ last.result[i].similarity = One - last.result[i].distance
               /\ last.result[i].distance
                      = Distance(last.query_embedding, Hit(i).embedding)
        /\ Len(last.result) =< last.limit
        /\ \A i \in 1..Len(last.result) :
               /\ TypesSupplied(last) =>
                      \E h \in 1..Len(last.memory_types) :
                          last.result[i].metadata.memory_type = last.memory_types[h]
               /\ ImportanceSupplied(last) =>
                      last.result[i].metadata.importance >= last.min_importance
               /\ RangeSupplied(last) =>
                      /\ last.result[i].metadata.chapter_number >= last.chapter_range[1]
                      /\ last.result[i].metadata.chapter_number =< last.chapter_range[2]

\* A filtered search returned two results at different distances out of three
\* stored records.
C10_Witness ==
    /\ Searched
    /\ Len(last.result) = 2
    /\ last.result[1].distance < last.result[2].distance
    /\ TypesSupplied(last)
    /\ Cardinality(DOMAIN chroma[last.name].records) = 3


(***************************************************************************)
(* Properties of SpecLoad.                                                 *)
(***************************************************************************)
\* The steps of the load chain of the claim; without a snapshot of the primary
\* model on disk there is nothing to attempt offline.
ChainSteps ==
    {<<"untried", "skipped">>, <<"untried", "offline_primary">>,
     <<"offline_primary", "loaded">>, <<"offline_primary", "online_primary">>,
     <<"online_primary", "loaded">>, <<"online_primary", "fallback">>,
     <<"fallback", "loaded">>, <<"fallback", "failed">>}
    \cup (IF emb.has_valid_model THEN {} ELSE {<<"untried", "online_primary">>})

\* C13 as stated: __init__ attempts the primary model offline, on failure the
\* primary model with the network allowed, on failure the fallback model; the
\* first success ends the chain and only the failure of the fallback is fatal.
C13_OrderedLoadChain ==
    [][(last.op = "load" /\ last'.op = "load")
          => <<last.phase, last'.phase>> \in ChainSteps]_vars

Successes(attempts) == {i \in 1..Len(attempts) : attempts[i].ok}

\* The model attribute is the model of the one successful attempt, if any.
LoadedOnce(attempts, model) ==
    /\ Cardinality(Successes(attempts)) =< 1
    /\ model = IF Successes(attempts) = {} THEN NONE
               ELSE attempts[CHOOSE i \in Successes(attempts) : TRUE].model

\* C14 as stated: no load is attempted at process start, a load is attempted only
\* by a local-mode embed call made while no model is loaded, and the model is
\* successfully loaded at most once and never replaced.
C14_LazyLoadedOnce ==
    [][/\ log' # log
           => /\ last'.op = "embed_texts"
              /\ last'.mode = "local"
              /\ last'.model_before = NONE
       /\ LoadedOnce(log', embedding_model')
       /\ embedding_model # NONE => embedding_model' = embedding_model]_vars

\* C14, amended: a process whose default mode is api attempts no load at start
\* and loads on demand, in a local-mode embed call made while no model is loaded;
\* any other process loads at start; either way the model is successfully loaded
\* at most once and never replaced.
C14_LoadedOnceAtStartOrOnDemand ==
    [][/\ (log' # log /\ last'.op = "load") => ~StartsInApiMode(app_settings)
       /\ (log' # log /\ last'.op = "embed_texts")
              => /\ last'.mode = "local"
                 /\ last'.model_before = NONE
                 /\ StartsInApiMode(app_settings)
       /\ (last.op = "load" /\ last.phase = "loaded") => embedding_model # NONE
       /\ LoadedOnce(log', embedding_model')
       /\ embedding_model # NONE => embedding_model' = embedding_model]_vars

\* A process that started in api mode loaded the configured local model on
\* demand, and a later local-mode call found it loaded.
C14_Witness ==
    /\ StartsInApiMode(app_settings)
    /\ Len(log) = 2
    /\ ~log[1].ok
    /\ log[2] = Attempt("on_demand", ConfiguredLocalModel, TRUE, "embed")
    /\ last.op = "embed_texts"
    /\ last.mode = "local"
    /\ last.model_before = ConfiguredLocalModel
    /\ last.out.status = "ok"


(***************************************************************************)
(* Properties of SpecResolve.                                              *)
(***************************************************************************)
\* The value of `key` by priority: the override's when it supplies one, else the
\* stored row's when there is a row holding one, else the process default.
ByPriority(defaults, stored, override, key) ==
    IF override[key] # NONE THEN override[key]
    ELSE IF stored.status = "row" /\ Truthy(stored.row[key]) THEN stored.row[key]
    ELSE DefaultLayer(defaults)[key]

\* C15: every call merges its own three layers field by field with the priority
\* override > stored settings > process defaults; the second call of a process
\* takes nothing from the first.
C15_MergedByPriority ==
    nm.op = "resolve" =>
        \A i \in 1..Len(nm.done) :
            \A key \in ConfigKeys :
                nm.done[i].merged[key]
                    = ByPriority(app_settings, nm.done[i].stored, nm.done[i].override, key)

\* A second call, made after a call whose override named a model, took the stored
\* model for one field and the override's mode for another.
C15_Witness ==
    /\ nm.op = "resolve"
    /\ Len(nm.done) = 2
    /\ nm.done[1].override = OverrideModelB
    /\ nm.done[2].override = OverrideApi
    /\ nm.done[2].stored = RowUnknown
    /\ nm.done[2].merged.embedding_model = ModelA
    /\ nm.done[2].merged.embedding_mode = "Api "
    /\ nm.done[2].merged.embedding_api_base_url = DefaultApiBase

\* C16: every configuration returned has mode local or api and provider openai or
\* custom; under local its model is the process's local model name; under api its
\* model and base url are non-empty and its key is a string, possibly empty.
C16_ResolvedIsNormalized ==
    nm.op = "resolve" =>
        \A i \in 1..Len(nm.done) :
            LET config == nm.done[i].config
            IN  /\ DOMAIN config = ConfigKeys
                /\ config.embedding_mode \in {"local", "api"}
                /\ config.embedding_provider \in {"openai", "custom"}
                /\ config.embedding_mode = "local"
                       => config.embedding_model = LocalModelName(app_settings)
                /\ config.embedding_mode = "api"
                       => /\ config.embedding_model \notin {"", NONE}
                          /\ config.embedding_api_base_url \notin {"", NONE}
                          /\ config.embedding_api_key # NONE

\* An unknown stored mode was coerced to local after a failed settings read, and
\* a blank api row was completed with the defaults.
C16_Witness ==
    /\ nm.op = "resolve"
    /\ Len(nm.done) = 2
    /\ nm.done[1].stored = ReadFailed
    /\ nm.done[2].stored = RowApiBlank
    /\ nm.done[2].override = NoOverride
    /\ nm.done[2].config.embedding_mode = "api"
    /\ nm.done[2].config.embedding_provider = "custom"
    /\ nm.done[2].config.embedding_api_key = ""
    /\ nm.done[2].config.embedding_api_base_url = DefaultApiBase


(***************************************************************************)
(* Properties of SpecRebuild.                                              *)
(***************************************************************************)
\* The ids the rebuild hands to batch_add_memories.
RebuildIds(n) == {RebuildRecord(StoryMemory(i)).id : i \in 1..n}

\* The collections of the store named for (user_id, project_id).
Family(store, user_id, project_id) ==
    {name \in DOMAIN store : Belongs(name, user_id, project_id)}

\* C17 as stated: a rebuild whose purge reports failure writes no vector; one
\* whose purge reports success has dropped every collection of the project before
\* its first batch, so that afterwards the project holds nothing but what the
\* batches wrote, in the collection of the current configuration; and when every
\* batch succeeded that collection holds exactly one vector per relational row.
C17_RebuildPurgesThenRepopulates ==
    [][last'.op = "rebuild_project_embeddings"
          => LET family == Family(chroma', last'.user_id, last'.project_id)
                 rebuilt == \A k \in 1..Len(last'.added) : last'.added[k] > 0
             IN  /\ ~last'.deleted_ok => RecordsOf(chroma') \subseteq RecordsOf(chroma)
                 /\ last'.deleted_ok
                        => /\ family \subseteq {last'.name}
                           /\ \A name \in family :
                                  \A id \in DOMAIN chroma'[name].records :
                                      /\ id \in RebuildIds(last'.n)
                                      /\ <<name, id, chroma'[name].records[id]>>
                                             \notin RecordsOf(chroma)
                 /\ (last'.deleted_ok /\ rebuilt /\ last'.n > 0)
                        => /\ family = {last'.name}
                           /\ DOMAIN chroma'[last'.name].records = RebuildIds(last'.n)
                           /\ last'.rebuilt_memories = last'.n]_vars


(***************************************************************************)
(* Properties of SpecRecall.                                               *)
(***************************************************************************)
\* `item` is a record of the collection `name` of the store, as returned.
IsRecordOf(item, store, name) ==
    /\ name \in DOMAIN store
    /\ item.id \in DOMAIN store[name].records
    /\ item.content = store[name].records[item.id].document
    /\ item.metadata = store[name].records[item.id].metadata

\* C18: find_unresolved_foreshadows returns only records of the active collection
\* that are planted, unresolved foreshadows (is_foreshadow = 1) of a chapter
\* before current_chapter, by importance non-increasing.
C18_OnlyOpenEarlierForeshadows ==
    [][last'.op = "find_unresolved_foreshadows"
          => LET result == last'.result
             IN  /\ \A i \in 1..Len(result) :
                        /\ IsRecordOf(result[i], chroma', last'.name)
                        /\ result[i].metadata.is_foreshadow = 1
                        /\ result[i].metadata.chapter_number < last'.current_chapter
                 /\ \A i, j \in 1..Len(result) :
                        i < j => result[i].metadata.importance
                                     >= result[j].metadata.importance]_vars

\* A call that returned foreshadows of different importance and left out a
\* resolved one, a foreshadow of the current chapter and a non-foreshadow.
C18_Witness ==
    /\ last.op = "find_unresolved_foreshadows"
    /\ Len(last.result) >= 2
    /\ last.result[1].metadata.importance > last.result[2].metadata.importance
    /\ LET records == chroma[last.name].records
           returned == {last.result[i].id : i \in 1..Len(last.result)}
       IN  \E a, b \in DOMAIN records \ returned :
               /\ records[a].metadata.is_foreshadow # 1
               /\ records[b].metadata.is_foreshadow = 1
               /\ records[b].metadata.chapter_number >= last.current_chapter

\* The ids of the collection's records of chapters from..(before - 1) at or above
\* the floor.
InWindow(store, name, from, before, floor) ==
    {id \in DOMAIN store[name].records :
        LET metadata == store[name].records[id].metadata
        IN  /\ metadata.chapter_number >= from
            /\ metadata.chapter_number < before
            /\ metadata.importance >= floor}

\* `result` is descending by (importance, chapter_number).
ByImportanceThenChapter(result) ==
    \A i, j \in 1..Len(result) :
        i < j => \/ result[i].metadata.importance > result[j].metadata.importance
                 \/ /\ result[i].metadata.importance = result[j].metadata.importance
                    /\ result[i].metadata.chapter_number
                           >= result[j].metadata.chapter_number

\* The answer of the call is the records `ids` of the active collection, sorted.
Retrieved(call, store, ids) ==
    /\ {call.result[i].id : i \in 1..Len(call.result)} = ids
    /\ Len(call.result) = Cardinality(ids)
    /\ \A i \in 1..Len(call.result) : IsRecordOf(call.result[i], store, call.name)
    /\ ByImportanceThenChapter(call.result)

IsStatedSplit(call) ==
    /\ call.op = "split_text_for_embedding"
    /\ Len(call.cleaned) = 4000
    /\ call.chunk_size = 1800
    /\ call.overlap = 150

Starts(call) == {call.parts[k].start : k \in 1..Len(call.parts)}

\* Every chunk is a non-empty piece of the cleaned text that lies within it, and
\* the last one ends at the end of the text.
ChunksWithinText(call) ==
    /\ Len(call.chunks) = Len(call.parts)
    /\ \A k \in 1..Len(call.parts) :
           LET p == call.parts[k]
           IN  /\ call.chunks[k] = p.part
               /\ p.part # <<>>
               /\ 0 <= p.start /\ p.start < p.end /\ p.end <= Len(call.cleaned)
               /\ \E from \in p.start..(p.end - 1) :
                      p.part = Slice(call.cleaned, from, from + Len(p.part))
    /\ Len(call.parts) > 0
           => LET final == call.parts[Len(call.parts)]
              IN  /\ final.end = Len(call.cleaned)
                  /\ final.part[Len(final.part)] = call.cleaned[Len(call.cleaned)]

C21_ShortTextIsOneChunk ==
    [][(last'.op = "split_text_for_embedding" /\ Len(last'.cleaned) <= last'.chunk_size)
          => last'.chunks = <<last'.cleaned>>]_vars

\* C21 amended: every non-empty cleaned text no longer than chunk_size gives
\* exactly one chunk, equal to the cleaned text; the empty cleaned text (an empty
\* or all-whitespace input) gives no chunk.
C21_NonEmptyShortTextIsOneChunk ==
    [][last'.op = "split_text_for_embedding"
          => /\ (last'.cleaned # <<>> /\ Len(last'.cleaned) <= last'.chunk_size)
                    => last'.chunks = <<last'.cleaned>>
             /\ last'.cleaned = <<>> => last'.chunks = <<>>]_vars

\* A text of one character was split, and so was one of exactly chunk_size
\* characters with a space in it.
C21_Witness ==
    /\ last.op = "split_text_for_embedding"
    /\ Len(last.chunks) = 1
    /\ \/ Len(last.cleaned) = 1
       \/ /\ Len(last.cleaned) = last.chunk_size
          /\ \E i \in 1..Len(last.cleaned) : last.cleaned[i] = " "


(***************************************************************************)
(* Properties of SpecNumeral.                                              *)
(***************************************************************************)
CnChars == (DOMAIN CN_DIGITS) \cup (DOMAIN CN_UNITS)

\* The invalid sequences: empty, holding a character outside the two tables,
\* denoting zero, or with two digits side by side (a zero before a digit, as in
\* one hundred and five, is no juxtaposition).
IsInvalidNumeral(text) ==
    LET raw == StripChars(text)
    IN  \/ raw = <<>>
        \/ \E i \in 1..Len(raw) : raw[i] \notin CnChars
        \/ \A i \in 1..Len(raw) : raw[i] \in {"ling", "ling0"}
        \/ \E i \in 1..(Len(raw) - 1) :
               /\ raw[i] \in DOMAIN CN_DIGITS /\ raw[i] \notin {"ling", "ling0"}
               /\ raw[i + 1] \in DOMAIN CN_DIGITS

\* C22 as stated: chinese_to_int gives every well-formed numeral up to the ten
\* thousands its value (thirty-two, one hundred and five, the colloquial two
\* thousand) and no value for every invalid sequence, for which
\* extract_chapter_number gives the positional index.
C22_NumeralsConvertedInvalidRefused ==
    [][/\ last'.op = "chinese_to_int"
          => /\ \A n \in SampleValues :
                    last'.text = NumeralOf(n) => last'.result = IntValue(n)
             /\ last'.text = <<"liang", "qian">> => last'.result = IntValue(2000)
             /\ IsInvalidNumeral(last'.text) => last'.result = NoValue
       /\ (last'.op = "extract_chapter_number" /\ IsInvalidNumeral(last'.text))
          => last'.result = last'.fallback_index]_vars


TextFields == {"chapter_outline", "recent_chapters_context", "continuation_point", "previous_chapter_summary", "chapter_characters", "chapter_careers", "emotional_tone", "relevant_memories", "foreshadow_reminders"}

IsContext == last.op = "build" /\ ~last.raised

\* C24: in every context object either builder returns, each textual field is
\* None or a non-empty string: no assembler path produces the empty string.
C24_TextFieldsNoneOrNonEmpty ==
    IsContext => \A field \in TextFields \cap DOMAIN last : last[field] = NONE \/ last[field] # ""

ReminderQueries == <<"get_must_resolve_foreshadows", "get_overdue_foreshadows", "get_pending_resolve_foreshadows">>

SectionRank(name) == CASE name = "must_resolve" -> 1 [] name = "overdue" -> 2 [] name = "upcoming" -> 3

IsReminderBuild == last.op = "build" /\ ~last.raised /\ nm.service.present

\* The queries went out in the stated order, all three unless one raised.
QueriesInOrder ==
    /\ log = SubSeq(ReminderQueries, 1, Len(log))
    /\ nm.service.fail_at = 0 => log = ReminderQueries
    /\ nm.service.fail_at > 0 => last.foreshadow_reminders = NONE

\* The sections follow the order of the queries, each with its own framing.
SectionsInOrder ==
    \A i, j \in 1..Len(last.sections) :
        i < j => SectionRank(last.sections[i].name) < SectionRank(last.sections[j].name)


\* The look-ahead section shows only foreshadows due after this chapter.
UpcomingStrictlyLater ==
    \A i \in 1..Len(last.sections) :
        last.sections[i].name = "upcoming" =>
            \A k \in 1..Len(last.sections[i].shown) :
                last.sections[i].shown[k].target_resolve_chapter_number > last.chapter_number

ShownOf(name) ==
    IF \E i \in 1..Len(last.sections) : last.sections[i].name = name
    THEN (CHOOSE s \in {last.sections[i] : i \in 1..Len(last.sections)} : s.name = name).shown
    ELSE <<>>

\* C25 as stated: queries and sections in order, the look-ahead section strictly
\* later, and each of the three lists cut to the fixed maximum.
C25_EachOfThreeListsCapped ==
    IsReminderBuild =>
        /\ QueriesInOrder
        /\ SectionsInOrder
        /\ UpcomingStrictlyLater
        /\ Len(ShownOf("must_resolve")) <= MaxOverdueShown
        /\ Len(ShownOf("overdue")) <= MaxOverdueShown
        /\ Len(ShownOf("upcoming")) <= MaxUpcomingShown

\* C25 (amended): queries and sections in the stated order, the look-ahead
\* section strictly later; the overdue and the look-ahead lists are cut to
\* their first three entries, the must-resolve list is shown whole.
C25_OverdueAndUpcomingCapped ==
    IsReminderBuild =>
        /\ QueriesInOrder
        /\ SectionsInOrder
        /\ UpcomingStrictlyLater
        /\ nm.service.fail_at = 0 =>
            /\ ShownOf("must_resolve") = nm.service.must_resolve
            /\ ShownOf("overdue") = FirstOf(nm.service.overdue, 3)
            /\ Len(ShownOf("upcoming")) <= 3
            /\ \A k \in 1..Len(ShownOf("upcoming")) :
                   \E m \in 1..Len(nm.service.upcoming) :
                       nm.service.upcoming[m] = ShownOf("upcoming")[k]

C25_Witness ==
    /\ IsReminderBuild
    /\ last.mode = "one-to-one"
    /\ log = ReminderQueries
    /\ Len(last.sections) = 3
    /\ Len(nm.service.must_resolve) > 3
    /\ Len(nm.service.overdue) > 3
    /\ Len(nm.service.upcoming) > Len(ShownOf("upcoming"))
    /\ \E m \in 1..Len(nm.service.upcoming) :
           nm.service.upcoming[m].target_resolve_chapter_number = last.chapter_number

(***************************************************************************)
(* Properties of SpecWrites.                                               *)
(***************************************************************************)
\* C26: whatever the calls and the configuration changes between them, the
\* vectors of one collection all come from one embedding model.
C26_OneModelPerCollection ==
    \A name \in DOMAIN chroma :
        \A id1, id2 \in DOMAIN chroma[name].records :
            chroma[name].records[id1].embedding.model = chroma[name].records[id2].embedding.model

IsUpdateCall == last.op = "update_memory"

\* The record the update addresses, in `store`: <<>> when it holds none.
Addressed(store) ==
    IF last.name \in DOMAIN store /\ last.memory_id \in DOMAIN store[last.name].records
    THEN <<store[last.name].records[last.memory_id]>> ELSE <<>>

\* An embedding call is made exactly when content is supplied.
ReembedsOnlyWithContent ==
    /\ ~Truthy(last.content) => last.embed = "not_called"
    /\ Truthy(last.content) /\ last.result => last.embed = "ok"

\* A metadata-only update leaves the document and the vector as they were.
MetadataOnlyKeepsContent ==
    ~Truthy(last.content) /\ HasMetadata(last.metadata) /\ Addressed(last.before) # <<>> =>
        /\ Addressed(chroma) # <<>>
        /\ Addressed(chroma)[1].document = Addressed(last.before)[1].document
        /\ Addressed(chroma)[1].embedding = Addressed(last.before)[1].embedding

\* Every record but the addressed one is as it was, and no record came or went.
OtherRecordsKept ==
    /\ StoredRecords(chroma) = StoredRecords(last.before)
    /\ \A pair \in StoredRecords(chroma) :
           pair # <<last.name, last.memory_id>> =>
               chroma[pair[1]].records[pair[2]] = last.before[pair[1]].records[pair[2]]

AllRecordsKept ==
    /\ StoredRecords(chroma) = StoredRecords(last.before)
    /\ \A pair \in StoredRecords(chroma) :
           chroma[pair[1]].records[pair[2]] = last.before[pair[1]].records[pair[2]]

\* C29 as stated: re-embedding only with content, a metadata-only update keeps
\* content and vector, an update with neither returns False and leaves the
\* store as it was, and no other record is modified.
C29_EmptyUpdateLeavesStore ==
    IsUpdateCall =>
        /\ ReembedsOnlyWithContent
        /\ MetadataOnlyKeepsContent
        /\ OtherRecordsKept
        /\ ~Truthy(last.content) /\ ~HasMetadata(last.metadata) =>
               last.result = FALSE /\ chroma = last.before

\* C29 (amended): the same, but an update with neither content nor metadata
\* returns False and leaves every record as it was; the one change it can make
\* is the empty collection get_collection creates for the resolved configuration.
C29_EmptyUpdateLeavesRecords ==
    IsUpdateCall =>
        /\ ReembedsOnlyWithContent
        /\ MetadataOnlyKeepsContent
        /\ OtherRecordsKept
        /\ ~Truthy(last.content) /\ ~HasMetadata(last.metadata) =>
               /\ last.result = FALSE
               /\ AllRecordsKept
               /\ DOMAIN chroma \subseteq (DOMAIN last.before) \cup {last.name}
               /\ \A name \in (DOMAIN chroma) \cap (DOMAIN last.before) :
                      chroma[name] = last.before[name]

C29_Witness ==
    /\ IsUpdateCall
    /\ ~Truthy(last.content)
    /\ HasMetadata(last.metadata)
    /\ last.result
    /\ Addressed(last.before) # <<>>
    /\ Addressed(chroma) # Addressed(last.before)
    /\ Cardinality(StoredRecords(chroma)) > 1

\* C30: add_memory of a memory and batch_add_memories of that memory alone leave
\* the same store (ids, documents, metadata) and both succeed or both fail.
C30_AddEqualsBatchOfOne ==
    last.op = "add_memory" =>
        /\ last.batched = chroma
        /\ last.result <=> last.batched_result = 1

(***************************************************************************)
(* Properties of SpecSplitLive.                                            *)
(***************************************************************************)
IsLongSplit(call) ==
    call.op = "split_text_for_embedding" /\ Len(call.cleaned) > call.chunk_size

\* max(1, chunk_size - overlap), as the claim states it
StatedStep(call) ==
    IF call.chunk_size - call.overlap > 1 THEN call.chunk_size - call.overlap ELSE 1

\* The windows start at the successive multiples of the step, none is longer
\* than chunk_size, every character lies in one, only the last reaches the end of
\* the text, and there are no more passes than characters.
WindowsCoverText(call) ==
    LET w == call.windows
        n == Len(call.cleaned)
    IN  /\ Len(w) > 0 /\ Len(w) <= n
        /\ \A k \in 1..Len(w) :
               /\ w[k].start = (k - 1) * StatedStep(call)
               /\ w[k].start < w[k].end
               /\ w[k].end - w[k].start <= call.chunk_size
               /\ k < Len(w) => w[k].end < n
        /\ \A i \in 0..(n - 1) : \E k \in 1..Len(w) : w[k].start <= i /\ i < w[k].end
        /\ w[Len(w)].end = n

\* The chunks returned are the stripped texts of the windows, in order, without
\* those of the windows that hold whitespace only.
ChunksOfWindows(call) ==
    LET w == call.windows
        texts == [k \in 1..Len(w) |-> StripChars(Slice(call.cleaned, w[k].start, w[k].end))]
        NotEmpty(t) == t # <<>>
    IN  /\ call.chunks = SelectSeq(texts, NotEmpty)
        /\ \A k \in 1..Len(call.chunks) : Len(call.chunks[k]) <= call.chunk_size

\* C28: for every chunk_size >= 1 and overlap >= 0 the call returns, and the
\* windows of a cleaned text longer than chunk_size start at successive multiples
\* of max(1, chunk_size - overlap), are no longer than chunk_size, cover the text
\* and end, with the last of them, at the text's end.
C28_TerminatesWindowsCover ==
    /\ <>(last.op = "split_text_for_embedding")
    /\ [][IsLongSplit(last') => WindowsCoverText(last') /\ ChunksOfWindows(last')]_vars

\* A long text split with overlap >= chunk_size, one of whose windows held
\* whitespace only.
C28_Witness ==
    /\ IsLongSplit(last)
    /\ last.overlap >= last.chunk_size
    /\ Len(last.windows) > 2
    /\ Len(last.chunks) < Len(last.windows)

(***************************************************************************)
(* Properties of SpecBook                                                  *)
(***************************************************************************)
IsBookSplit == last.op = "split_book_content"

\* C27: the chapters split_book_content returns are indexed 1..n in order with
\* no gaps, each holds content at least min_chapter_length long with word_count
\* that length; the paragraph fallback runs only when heading detection kept no
\* chapter, and detected_by_heading is true exactly when the chapters returned
\* are those of heading detection.
C27_IndexedValidChapters ==
    IsBookSplit =>
        /\ \A k \in 1..Len(last.chapters) :
               /\ last.chapters[k].index = k
               /\ Len(last.chapters[k].content) >= last.min_chapter_length
               /\ last.chapters[k].word_count = Len(last.chapters[k].content)
        /\ last.fallback_ran => last.by_heading = <<>>
        /\ last.detected_by_heading <=>
               (last.chapters # <<>> /\ last.chapters = last.by_heading)

\* Heading detection kept two chapters with a discarded candidate between them.
C27_Witness ==
    /\ IsBookSplit
    /\ last.detected_by_heading
    /\ \E k \in 1..(Len(last.chapters) - 1) :
           last.chapters[k + 1].candidate > last.chapters[k].candidate + 1
=============================================================================
